---- MODULE Spec2Model ----
(***************************************************************************)
(* A model of SchwabClient (src/src/schwabClient.ts): the HTTP request /   *)
(* response cycle of its operations and the reconstruction of put credit   *)
(* spreads from the positions of the accounts response.                    *)
(*                                                                         *)
(* Strings of the program are sequences of one-character strings, so that  *)
(* the regular expressions of the source are matched character by          *)
(* character.  Prices and strikes are carried in thousandths (the source   *)
(* divides the strike digits by 1000): 5900000 stands for 5900.000 and     *)
(* 12500 for 12.50.  Error messages are sequences of words.                *)
(***************************************************************************)
EXTENDS Integers, Sequences, FiniteSets, TLC

(***************************************************************************)
(* Bounds of the model.                                                    *)
(***************************************************************************)
\* accounts in one accounts response
MaxAccounts == 2
\* positions in one accounts response, over all its accounts
MaxPositions == 3
\* expiration keys in one map of a chains response
MaxKeys == 2
\* entries in one quotes response
MaxQuotes == 2
\* positions of the account whose expiry codes are decoded
MaxExpiryLegs == 4
\* the days a caller asks the price history of
MaxDays == 135
\* candles in one price history response
MaxCandles == 2

(***************************************************************************)
(* The state.                                                              *)
(***************************************************************************)
VARIABLES
  accessToken,  \* the token given at construction
  brokerage,    \* the accounts the brokerage holds: the body of an accounts response
  pc,           \* "idle", or "awaiting" the response to the request in flight
  call,         \* the operation in progress and its argument
  request,      \* the request in flight
  response,     \* the last response received
  result,       \* what the last finished operation returned or threw
  promises      \* the per-account requests of a fan-out, by account index

vars == <<accessToken, brokerage, pc, call, request, response, result, promises>>

(***************************************************************************)
(* Characters and the character classes of the regular expressions.        *)
(***************************************************************************)
Digit == {"0", "1", "2", "3", "4", "5", "6", "7", "8", "9"}

Letter ==
  {"A", "B", "C", "D", "E", "F", "G", "H", "I", "J", "K", "L", "M",
   "N", "O", "P", "Q", "R", "S", "T", "U", "V", "W", "X", "Y", "Z",
   "a", "b", "c", "d", "e", "f", "g", "h", "i", "j", "k", "l", "m",
   "n", "o", "p", "q", "r", "s", "t", "u", "v", "w", "x", "y", "z"}

UpperCaseLetters ==
  <<"A", "B", "C", "D", "E", "F", "G", "H", "I", "J", "K", "L", "M",
    "N", "O", "P", "Q", "R", "S", "T", "U", "V", "W", "X", "Y", "Z">>

LowerCaseLetters ==
  <<"a", "b", "c", "d", "e", "f", "g", "h", "i", "j", "k", "l", "m",
    "n", "o", "p", "q", "r", "s", "t", "u", "v", "w", "x", "y", "z">>

\* \w
WordChar == Letter \cup Digit \cup {"_"}

\* \s
SpaceChar == {" "}

DigitValue(c) ==
  CASE c = "0" -> 0 [] c = "1" -> 1 [] c = "2" -> 2 [] c = "3" -> 3
    [] c = "4" -> 4 [] c = "5" -> 5 [] c = "6" -> 6 [] c = "7" -> 7
    [] c = "8" -> 8 [] c = "9" -> 9

\* s.slice(from - 1, to) of the source, with 1-based inclusive positions
Slice(s, from, to) == [k \in 1..(to - from + 1) |-> s[from + k - 1]]

AllIn(s, from, to, class) == \A k \in from..to : s[k] \in class

\* parseInt of a run of decimal digits
RECURSIVE ParseInt(_)
ParseInt(d) ==
  IF d = <<>> THEN 0
  ELSE 10 * ParseInt(SubSeq(d, 1, Len(d) - 1)) + DigitValue(d[Len(d)])

Min(a, b) == IF a < b THEN a ELSE b


SetMax(S) == CHOOSE x \in S : \A y \in S : y <= x

SetMin(S) == CHOOSE x \in S : \A y \in S : x <= y

RECURSIVE Flatten(_)
Flatten(ss) == IF ss = <<>> THEN <<>> ELSE Head(ss) \o Flatten(Tail(ss))

(***************************************************************************)
(* The option symbols and positions the accounts responses are built from. *)
(***************************************************************************)
SPX == <<"S", "P", "X">>

SPXW == <<"S", "P", "X", "W">>

Undefined == <<"undefined">>

Pad(n) == [k \in 1..n |-> " "]

Dec20 == <<"2", "4", "1", "2", "2", "0">>

Jan17 == <<"2", "5", "0", "1", "1", "7">>

Strike5800 == <<"0", "5", "8", "0", "0", "0", "0", "0">>

Strike5900 == <<"0", "5", "9", "0", "0", "0", "0", "0">>

Strike5950 == <<"0", "5", "9", "5", "0", "0", "0", "0">>

\* the OCC symbol: root padded to six characters, YYMMDD, P or C, strike
OptionSymbol(root, expiry, putCall, strike) ==
  root \o Pad(6 - Len(root)) \o expiry \o <<putCall>> \o strike

Position(assetType, underlyingSymbol, symbol, shortQuantity, longQuantity, averagePrice) ==
  [assetType |-> assetType,
   underlyingSymbol |-> underlyingSymbol,
   symbol |-> symbol,
   shortQuantity |-> shortQuantity,
   longQuantity |-> longQuantity,
   averagePrice |-> averagePrice]

\* short SPX 241220 P 5900, one contract at 12.50
ShortPut5900 ==
  Position("OPTION", SPX, OptionSymbol(SPX, Dec20, "P", Strike5900), 1, 0, 12500)

\* long SPX 241220 P 5800, one contract at 7.00
LongPut5800 ==
  Position("OPTION", SPX, OptionSymbol(SPX, Dec20, "P", Strike5800), 0, 1, 7000)

\* short SPX 241220 P 5950, two contracts at 15.00
ShortPut5950 ==
  Position("OPTION", SPX, OptionSymbol(SPX, Dec20, "P", Strike5950), 2, 0, 15000)

\* SPX 241220 P 5900 held both short (one) and long (two)
BothPut5900 ==
  Position("OPTION", SPX, OptionSymbol(SPX, Dec20, "P", Strike5900), 1, 2, 9000)

\* SPX 241220 C 5800 held both short and long
BothCall5800 ==
  Position("OPTION", SPX, OptionSymbol(SPX, Dec20, "C", Strike5800), 1, 1, 7000)

\* long SPX 250117 P 5800: another expiry
LongPut5800Jan ==
  Position("OPTION", SPX, OptionSymbol(SPX, Jan17, "P", Strike5800), 0, 1, 8000)

\* long put whose strike field has four digits
LongPutStrike4 ==
  Position("OPTION", SPX, OptionSymbol(SPX, Dec20, "P", <<"5", "7", "0", "0">>), 0, 1, 1000)

\* long put whose symbol has no six-digit date
LongPutNoDate ==
  Position("OPTION", SPX, SPX \o Pad(3) \o <<"2", "4", "1", "2", "P">> \o Strike5800, 0, 1, 7000)

\* long put whose symbol has no P or C marker
LongPutNoMarker ==
  Position("OPTION", SPX, SPX \o Pad(3) \o Dec20 \o Strike5800, 0, 1, 7000)

\* an equity position that carries the fields of the long put
EquityLike5800 ==
  Position("EQUITY", SPX, OptionSymbol(SPX, Dec20, "P", Strike5800), 0, 1, 7000)

\* long SPXW 241220 P 5800: an option of an underlying the target is a prefix of
LongPutSPXW ==
  Position("OPTION", SPXW, OptionSymbol(SPXW, Dec20, "P", Strike5800), 0, 1, 7000)

\* the long put, with the underlying in lower case
LongPutLowerCase ==
  Position("OPTION", <<"s", "p", "x">>, OptionSymbol(SPX, Dec20, "P", Strike5800), 0, 1, 7000)

\* the long put, without an underlyingSymbol
LongPutNoUnderlying ==
  Position("OPTION", Undefined, OptionSymbol(SPX, Dec20, "P", Strike5800), 0, 1, 7000)

\* long put whose symbol has a root that is not made of word characters
LongPutDottedRoot ==
  Position("OPTION", SPX,
           OptionSymbol(<<"S", "P", ".", "X">>, Dec20, "P", Strike5800), 0, 1, 7000)

\* the positions of the responses of each specification
PairingPool ==
  {ShortPut5900, LongPut5800, ShortPut5950, BothPut5900, BothCall5800, LongPut5800Jan}

SymbolPool ==
  {ShortPut5900, LongPut5800, LongPutStrike4, LongPutNoDate, LongPutNoMarker,
   LongPutDottedRoot}

FilterPool ==
  {ShortPut5900, LongPut5800, EquityLike5800, LongPutSPXW, LongPutLowerCase,
   LongPutNoUnderlying}

\* the expiry codes 240231, which is no calendar date, and 240302
Feb31 == <<"2", "4", "0", "2", "3", "1">>

Mar02 == <<"2", "4", "0", "3", "0", "2">>

ShortPut5900Feb31 ==
  Position("OPTION", SPX, OptionSymbol(SPX, Feb31, "P", Strike5900), 1, 0, 12500)

LongPut5800Feb31 ==
  Position("OPTION", SPX, OptionSymbol(SPX, Feb31, "P", Strike5800), 0, 1, 7000)

ShortPut5900Mar02 ==
  Position("OPTION", SPX, OptionSymbol(SPX, Mar02, "P", Strike5900), 1, 0, 12500)

LongPut5800Mar02 ==
  Position("OPTION", SPX, OptionSymbol(SPX, Mar02, "P", Strike5800), 0, 1, 7000)

\* positions whose expiry codes are and are not calendar dates
ExpiryPool ==
  {ShortPut5900, LongPut5800, ShortPut5900Feb31, LongPut5800Feb31,
   ShortPut5900Mar02, LongPut5800Mar02}

Underlyings == {SPX, SPXW}

\* the option symbols of the positions
KnownSymbols == {p.symbol : p \in PairingPool \cup SymbolPool \cup FilterPool \cup ExpiryPool}

NoMatch == [matched |-> FALSE]

(***************************************************************************)
(* /^(\w+)\s*(\d{6})([PC])(\d+)$/.exec(optionSymbol)                       *)
(* A match is a pair <<i, j>>: s[1..i] is the \w+ run, s[i+1..j] the \s*   *)
(* run, s[j+1..j+6] the six digits, s[j+7] the marker and s[j+8..] the     *)
(* strike digits.  Backtracking prefers the longest \w+, then the longest  *)
(* \s*.                                                                    *)
(***************************************************************************)
OptionSymbolTails(s) ==
  { j \in 1..(Len(s) - 8) :
      /\ s[j + 7] \in {"P", "C"}
      /\ AllIn(s, j + 1, j + 6, Digit)
      /\ AllIn(s, j + 8, Len(s), Digit) }

OptionSymbolMatches(s) ==
  UNION { { <<i, j>> : i \in { h \in 1..j : /\ AllIn(s, h + 1, j, SpaceChar)
                                            /\ AllIn(s, 1, h, WordChar) } } :
          j \in OptionSymbolTails(s) }

\* the same expression without its anchored ^(\w+)\s* head
UnanchoredSymbolExec(s) ==
  LET js == OptionSymbolTails(s) IN
  IF js = {} THEN NoMatch
  ELSE LET j == SetMin(js)
       IN [matched |-> TRUE,
           g1 |-> <<>>,
           g2 |-> Slice(s, j + 1, j + 6),
           g3 |-> s[j + 7],
           g4 |-> Slice(s, j + 8, Len(s))]

OptionSymbolExec(s) ==
  LET ms == OptionSymbolMatches(s) IN
  IF ms = {} THEN NoMatch
  ELSE LET i == SetMax({m[1] : m \in ms})
           j == SetMax({m[2] : m \in {x \in ms : x[1] = i}})
       IN [matched |-> TRUE,
           g1 |-> Slice(s, 1, i),
           g2 |-> Slice(s, j + 1, j + 6),
           g3 |-> s[j + 7],
           g4 |-> Slice(s, j + 8, Len(s))]

(***************************************************************************)
(* /(\d{6})P(\d+)$/.exec(symbol): not anchored at the start, so the match  *)
(* is the leftmost position k with six digits, a P and digits to the end.  *)
(***************************************************************************)
PutStrikeMatches(s) ==
  { k \in 1..(Len(s) - 7) :
      /\ s[k + 6] = "P"
      /\ AllIn(s, k, k + 5, Digit)
      /\ AllIn(s, k + 7, Len(s), Digit) }

\* the same expression with [PC] in place of P
PutOrCallStrikeExec(s) ==
  LET ks == { k \in 1..(Len(s) - 7) :
                /\ s[k + 6] \in {"P", "C"}
                /\ AllIn(s, k, k + 5, Digit)
                /\ AllIn(s, k + 7, Len(s), Digit) } IN
  IF ks = {} THEN NoMatch
  ELSE LET k == SetMin(ks) IN
       [matched |-> TRUE, g1 |-> Slice(s, k, k + 5), g2 |-> Slice(s, k + 7, Len(s))]

PutStrikeExec(s) ==
  LET ks == PutStrikeMatches(s) IN
  IF ks = {} THEN NoMatch
  ELSE LET k == SetMin(ks) IN
       [matched |-> TRUE, g1 |-> Slice(s, k, k + 5), g2 |-> Slice(s, k + 7, Len(s))]

\* symbol.includes("P")
IncludesP(s) == \E k \in 1..Len(s) : s[k] = "P"

\* lines 358-360 and 364-366: the expression that finds the strike of a leg
StrikeExec(s) == PutStrikeExec(s)

(***************************************************************************)
(* The matches of the known symbols, computed once.                        *)
(***************************************************************************)
SymbolMatchOf == [s \in KnownSymbols |-> OptionSymbolExec(s)]

StrikeMatchOf == [s \in KnownSymbols |-> StrikeExec(s)]

\* parseInt(match[2]) / 1000, in thousandths
StrikeOf ==
  [s \in KnownSymbols |->
     IF StrikeMatchOf[s].matched THEN ParseInt(StrikeMatchOf[s].g2) ELSE 0]

IncludesPOf == [s \in KnownSymbols |-> IncludesP(s)]

(***************************************************************************)
(* new Date(year, monthIndex, day) in local time: out-of-range months and  *)
(* days roll over into the neighbouring year and months.                   *)
(***************************************************************************)
IsLeapYear(y) == (y % 4 = 0 /\ y % 100 # 0) \/ y % 400 = 0

DaysInMonth(y, monthIndex) ==
  CASE monthIndex = 1 -> IF IsLeapYear(y) THEN 29 ELSE 28
    [] monthIndex \in {3, 5, 8, 10} -> 30
    [] OTHER -> 31

RECURSIVE RollDay(_, _, _)
RollDay(y, monthIndex, d) ==
  IF d < 1 THEN
    LET py == IF monthIndex = 0 THEN y - 1 ELSE y
        pm == IF monthIndex = 0 THEN 11 ELSE monthIndex - 1
    IN RollDay(py, pm, d + DaysInMonth(py, pm))
  ELSE IF d > DaysInMonth(y, monthIndex) THEN
    RollDay(IF monthIndex = 11 THEN y + 1 ELSE y,
            IF monthIndex = 11 THEN 0 ELSE monthIndex + 1,
            d - DaysInMonth(y, monthIndex))
  ELSE [year |-> y, month |-> monthIndex, date |-> d]

NewDate(year, monthIndex, day) ==
  RollDay(year + (monthIndex \div 12), monthIndex % 12, day)

\* lines 377-380, with the month of the key taken as the month index
ExpiryDateMonthNotShifted(expiryKey) ==
  NewDate(2000 + ParseInt(Slice(expiryKey, 1, 2)),
          ParseInt(Slice(expiryKey, 3, 4)),
          ParseInt(Slice(expiryKey, 5, 6)))

\* lines 377-380: the calendar date of a six-digit expiry key
ExpiryDate(expiryKey) ==
  LET year == 2000 + ParseInt(Slice(expiryKey, 1, 2))
      month == ParseInt(Slice(expiryKey, 3, 4)) - 1
      day == ParseInt(Slice(expiryKey, 5, 6))
  IN NewDate(year, month, day)

(***************************************************************************)
(* getPutCreditSpreads, lines 322-397.  A position is a record with the    *)
(* fields the reconstruction reads; an account is its positions list, or   *)
(* no list at all (the field is missing from the JSON).                    *)
(***************************************************************************)
\* lines 326-330: the indices of the account's positions kept by the filter
IsTargetUnderlying(pos, symbol) == pos.underlyingSymbol = symbol

IsTargetOption(pos, symbol) ==
  pos.assetType = "OPTION" /\ pos.underlyingSymbol = symbol

SelectIndices(n, Test(_)) ==
  LET RECURSIVE Sel(_)
      Sel(k) == IF k = 0 THEN <<>>
                ELSE IF Test(k) THEN Append(Sel(k - 1), k) ELSE Sel(k - 1)
  IN Sel(n)

OptionPositions(positions, symbol) ==
  SelectIndices(Len(positions), LAMBDA i : IsTargetOption(positions[i], symbol))

\* lines 333-346: the keys of byExpiry in insertion order, and one group
RECURSIVE ExpiryKeys(_, _)
ExpiryKeys(positions, idxs) ==
  IF idxs = <<>> THEN <<>>
  ELSE LET before == ExpiryKeys(positions, SubSeq(idxs, 1, Len(idxs) - 1))
           m == SymbolMatchOf[positions[idxs[Len(idxs)]].symbol]
       IN IF ~m.matched THEN before
          ELSE IF \E k \in 1..Len(before) : before[k] = m.g2 THEN before
          ELSE Append(before, m.g2)

ExpiryGroup(positions, idxs, expiryKey) ==
  LET InGroup(i) ==
        LET m == SymbolMatchOf[positions[i].symbol]
        IN m.matched /\ m.g2 = expiryKey
  IN SelectSeq(idxs, InGroup)

\* lines 350-355
Puts(positions, group) ==
  SelectSeq(group, LAMBDA i : IncludesPOf[positions[i].symbol])

ShortOnlyPuts(positions, puts) ==
  SelectSeq(puts, LAMBDA i : positions[i].shortQuantity > 0 /\ positions[i].longQuantity = 0)

ShortPuts(positions, puts) ==
  SelectSeq(puts, LAMBDA i : positions[i].shortQuantity > 0)

LongPuts(positions, puts) ==
  SelectSeq(puts, LAMBDA i : positions[i].longQuantity > 0)

\* lines 360 and 366: the strike of a leg, in thousandths
Strike(s) == StrikeOf[s]

\* line 368
LowerStrikeAny(longStrike, shortStrike) == longStrike <= shortStrike

LowerStrike(longStrike, shortStrike) == longStrike < shortStrike

\* lines 363-368: the long puts paired with the short put at index i, in loop
\* order
NearestLongFor(positions, longPuts, i) ==
  LET Pairs(j) ==
        /\ StrikeMatchOf[positions[j].symbol].matched
        /\ LowerStrike(Strike(positions[j].symbol), Strike(positions[i].symbol))
      matches == SelectSeq(longPuts, Pairs)
      Nearest(j) ==
        \A k \in 1..Len(matches) :
          Strike(positions[matches[k]].symbol) <= Strike(positions[j].symbol)
      nearest == SelectSeq(matches, Nearest)
  IN IF nearest = <<>> THEN <<>> ELSE <<nearest[1]>>

LongsFor(positions, longPuts, i) ==
  LET Pairs(j) ==
        /\ StrikeMatchOf[positions[j].symbol].matched
        /\ LowerStrike(Strike(positions[j].symbol), Strike(positions[i].symbol))
  IN SelectSeq(longPuts, Pairs)

\* lines 350-393: the pairs <<short index, long index, expiry key>> of one
\* expiry group, in the order the nested loops reach them
GroupPairs(positions, group, expiryKey) ==
  LET puts == Puts(positions, group)
      shortPuts == ShortPuts(positions, puts)
      longPuts == LongPuts(positions, puts)
      PairsOf(i) ==
        IF ~StrikeMatchOf[positions[i].symbol].matched THEN <<>>
        ELSE LET longs == LongsFor(positions, longPuts, i)
             IN [k \in 1..Len(longs) |-> <<i, longs[k], expiryKey>>]
  IN Flatten([k \in 1..Len(shortPuts) |-> PairsOf(shortPuts[k])])

\* lines 325-394: the pairs of one account
AccountPairs(positions, symbol) ==
  LET idxs == OptionPositions(positions, symbol)
      keys == ExpiryKeys(positions, idxs)
  IN Flatten([k \in 1..Len(keys) |->
               GroupPairs(positions, ExpiryGroup(positions, idxs, keys[k]), keys[k])])

\* lines 369-390: the Spread record pushed for a pair
ShortQuantityOnly(shortQuantity, longQuantity) == shortQuantity

MinQuantity(shortQuantity, longQuantity) == Min(shortQuantity, longQuantity)

MakeSpread(symbol, shortPut, longPut, expiryKey) ==
  LET shortStrike == Strike(shortPut.symbol)
      longStrike == Strike(longPut.symbol)
      quantity == MinQuantity(shortPut.shortQuantity, longPut.longQuantity)
      width == shortStrike - longStrike
      credit == shortPut.averagePrice - longPut.averagePrice
  IN [underlying |-> symbol,
      expiry |-> ExpiryDate(expiryKey),
      shortStrike |-> shortStrike,
      longStrike |-> longStrike,
      credit |-> credit,
      quantity |-> quantity,
      theoreticalMaxLossPts |-> width - credit]

\* the Spreads of one account, a long leg giving to a later Spread only what
\* its first Spread left of it
ConsumingSpreads(positions, symbol) ==
  LET pairs == AccountPairs(positions, symbol)
      Whole(k) == MakeSpread(symbol, positions[pairs[k][1]], positions[pairs[k][2]],
                             pairs[k][3])
      Earlier(k) == {j \in 1..(k - 1) : pairs[j][2] = pairs[k][2]}
      Left(k) == positions[pairs[k][2]].longQuantity - Whole(SetMin(Earlier(k))).quantity
  IN [k \in 1..Len(pairs) |->
       IF Earlier(k) = {} THEN Whole(k)
       ELSE [Whole(k) EXCEPT !.quantity = Min(Whole(k).quantity, Left(k))]]

AccountSpreads(positions, symbol) ==
  LET pairs == AccountPairs(positions, symbol)
  IN [k \in 1..Len(pairs) |->
       MakeSpread(symbol, positions[pairs[k][1]], positions[pairs[k][2]], pairs[k][3])]

\* lines 324-395: the Spread list of an accounts response whose accounts all
\* carry a positions list; byExpiry is built anew for every account
FlatSpreads(accounts, symbol) ==
  AccountSpreads(Flatten([a \in 1..Len(accounts) |-> accounts[a].positions]), symbol)

Spreads(accounts, symbol) ==
  Flatten([a \in 1..Len(accounts) |-> AccountSpreads(accounts[a].positions, symbol)])

\* line 322: the list the Spreads are pushed to
StaleSpreads == IF result.op = "getPutCreditSpreads" THEN result.value ELSE <<>>

NewSpreads == <<>>

\* lines 325-326: positions.filter throws a TypeError when positions is undefined
ThrowsTypeError(accounts) ==
  \E a \in 1..Len(accounts) : ~accounts[a].positionsPresent

(***************************************************************************)
(* The accounts responses within the bounds: a flat list of positions cut  *)
(* into accounts at the given ends; an account with no position may also   *)
(* lack its positions list.                                                *)
(***************************************************************************)
Account(positions) == [positionsPresent |-> TRUE, positions |-> positions]

AccountWithoutPositions == [positionsPresent |-> FALSE, positions |-> <<>>]

BuildAccounts(ps, ends, present) ==
  [a \in 1..Len(ends) |->
     IF present[a]
     THEN Account(SubSeq(ps, (IF a = 1 THEN 0 ELSE ends[a - 1]) + 1, ends[a]))
     ELSE AccountWithoutPositions]

IsCut(ps, ends, present) ==
  /\ \A a \in 1..Len(ends) : (IF a = 1 THEN 0 ELSE ends[a - 1]) <= ends[a]
  /\ (IF Len(ends) = 0 THEN 0 ELSE ends[Len(ends)]) = Len(ps)
  /\ \A a \in 1..Len(ends) :
       ~present[a] => ends[a] = (IF a = 1 THEN 0 ELSE ends[a - 1])

(***************************************************************************)
(* HTTP: requests, responses and what makeApiRequest does with a response. *)
(***************************************************************************)
SCHWAB_API_BASE_URL == "https://api.schwabapi.com"

AccountsEndpoint == <<"/trader/v1/accounts?fields=positions">>

AccountNumbersEndpoint == <<"/trader/v1/accounts/accountNumbers">>

Token == "token"

Null == <<"null">>

NoRequest ==
  [method |-> "none", base |-> "", endpoint |-> <<>>, headers |-> <<>>, body |-> ""]

\* the names of the headers, as their characters
AuthorizationName == <<"A", "u", "t", "h", "o", "r", "i", "z", "a", "t", "i", "o", "n">>

ContentTypeName == <<"C", "o", "n", "t", "e", "n", "t", "-", "T", "y", "p", "e">>

AcceptName == <<"A", "c", "c", "e", "p", "t">>

\* the lower-casing of header names, by Headers and by fetch
ToLowerCase(s) ==
  [k \in DOMAIN s |->
     IF \E n \in 1..26 : UpperCaseLetters[n] = s[k]
     THEN LowerCaseLetters[CHOOSE n \in 1..26 : UpperCaseLetters[n] = s[k]]
     ELSE s[k]]

\* `Bearer ${token}`, as its words
Bearer(token) == <<"Bearer", token>>

\* result[key] = value on a Record, kept as the sequence of its <<key, value>>
\* pairs in insertion order: the value of a key already there is replaced in
\* place, a new key is added at the end
SetProperty(record, key, value) ==
  IF \E k \in 1..Len(record) : record[k][1] = key
  THEN [k \in 1..Len(record) |-> IF record[k][1] = key THEN <<key, value>> ELSE record[k]]
  ELSE Append(record, <<key, value>>)

RECURSIVE AssignAll(_, _)
AssignAll(record, pairs) ==
  IF pairs = <<>> THEN record
  ELSE AssignAll(SetProperty(record, pairs[1][1], pairs[1][2]), Tail(pairs))

\* RequestInit["headers"]: none, a Headers instance, an array of pairs or a
\* plain object, each with the pairs it was written with
NoHeaders == [form |-> "none", entries |-> <<>>]

HeadersInstance(entries) == [form |-> "Headers", entries |-> entries]

HeaderArray(entries) == [form |-> "array", entries |-> entries]

HeaderObject(entries) == [form |-> "object", entries |-> entries]

\* lines 580-600; a Headers instance gives its names in lower case
HeadersToRecord(headers) ==
  IF headers.form = "none" THEN <<>>
  ELSE IF headers.form = "Headers"
  THEN AssignAll(<<>>, [k \in DOMAIN headers.entries |->
                          <<ToLowerCase(headers.entries[k][1]), headers.entries[k][2]>>])
  ELSE IF headers.form = "array"
  THEN AssignAll(<<>>, SelectSeq(headers.entries, LAMBDA e : e[1] # <<>> /\ e[2] # <<>>))
  ELSE AssignAll(<<>>, headers.entries)

\* line 604: options = {}
NoOptions == [headers |-> NoHeaders]

\* lines 606-618: the request makeApiRequest hands to fetch, Authorization
\* being written after the headers of the options
FetchRequest(endpoint, options, token) ==
  [method |-> "GET",
   base |-> SCHWAB_API_BASE_URL,
   endpoint |-> endpoint,
   headers |-> SetProperty(HeadersToRecord(options.headers), AuthorizationName, Bearer(token)),
   body |-> ""]

\* the request of an operation: every operation calls makeApiRequest with an
\* endpoint and no options
ApiRequest(endpoint, token) == FetchRequest(endpoint, NoOptions, token)

\* line 612: the header list fetch makes of the headers of a request, names
\* compared without case; the values of one name, in order (they are sent as
\* one header, joined by ", ")
HeaderValues(req, name) ==
  LET same == SelectSeq(req.headers, LAMBDA e : ToLowerCase(e[1]) = ToLowerCase(name))
  IN [k \in DOMAIN same |-> same[k][2]]

NoResponse == [status |-> 0, statusText |-> <<>>, body |-> <<>>, location |-> Null]

\* response.ok
Ok(resp) == resp.status \in 200..299

OkResponse(body) ==
  [status |-> 200, statusText |-> <<"OK">>, body |-> body, location |-> Null]

ErrorResponses ==
  {[status |-> 401, statusText |-> <<>>, body |-> <<>>, location |-> Null],
   [status |-> 401, statusText |-> <<"Unauthorized">>, body |-> <<>>, location |-> Null],
   [status |-> 500, statusText |-> <<"Internal", "Server", "Error">>, body |-> <<>>,
    location |-> Null]}

NoResult == [op |-> "none", arg |-> <<>>, kind |-> "none", value |-> <<>>, message |-> <<>>]

Returned(op, arg, value) ==
  [op |-> op, arg |-> arg, kind |-> "value", value |-> value, message |-> <<>>]

Thrown(op, message) ==
  [op |-> op, arg |-> <<>>, kind |-> "error", value |-> <<>>, message |-> message]

\* lines 622-624
UnauthorizedMessage ==
  <<"Unauthorized", "-", "access", "token", "may", "be", "expired", "or", "invalid">>

\* line 626
FailedToFetchMessage(endpoint, statusText) ==
  <<"Failed", "to", "fetch">> \o endpoint \o <<":">> \o statusText

\* lines 620-627
ThrowsOnlyOn401(resp) == resp.status = 401

MakeApiRequestThrows(resp) == ~Ok(resp)

MakeApiRequestMessage(endpoint, resp) ==
  IF resp.status = 401 THEN UnauthorizedMessage
  ELSE FailedToFetchMessage(endpoint, resp.statusText)

\* message.includes(word), on messages that are sequences of words
Includes(message, word) == \E k \in 1..Len(message) : message[k] = word

NoCall == [op |-> "none", arg |-> <<>>]

(***************************************************************************)
(* getPutCreditSpreads(symbol), lines 317-398.                             *)
(***************************************************************************)
CallGetPutCreditSpreads(symbol) ==
  /\ pc = "idle"
  /\ pc' = "awaiting"
  /\ call' = [op |-> "getPutCreditSpreads", arg |-> symbol]
  /\ request' = ApiRequest(AccountsEndpoint, accessToken)
  /\ UNCHANGED <<accessToken, brokerage, response, result, promises>>

GetPutCreditSpreadsResult(symbol, endpoint, resp) ==
  IF MakeApiRequestThrows(resp)
  THEN Thrown("getPutCreditSpreads", MakeApiRequestMessage(endpoint, resp))
  ELSE IF ThrowsTypeError(resp.body)
  THEN Thrown("getPutCreditSpreads", <<"TypeError">>)
  ELSE Returned("getPutCreditSpreads", symbol, NewSpreads \o Spreads(resp.body, symbol))

ReceiveGetPutCreditSpreads ==
  /\ pc = "awaiting"
  /\ call.op = "getPutCreditSpreads"
  /\ \E resp \in {OkResponse(brokerage)} \cup ErrorResponses :
       /\ response' = resp
       /\ result' = GetPutCreditSpreadsResult(call.arg, request.endpoint, resp)
  /\ pc' = "idle"
  /\ call' = NoCall
  /\ request' = NoRequest
  /\ UNCHANGED <<accessToken, brokerage, promises>>

(***************************************************************************)
(* fetchAccountNumbers(), lines 400-407.                                   *)
(***************************************************************************)
AccountNumberBodies ==
  {<<>>,
   <<[accountNumber |-> "1001", hashValue |-> "HASH1"]>>,
   <<[accountNumber |-> "1001", hashValue |-> "HASH1"],
     [accountNumber |-> "1002", hashValue |-> "HASH2"]>>}

CallFetchAccountNumbers ==
  /\ pc = "idle"
  /\ pc' = "awaiting"
  /\ call' = [op |-> "fetchAccountNumbers", arg |-> <<>>]
  /\ request' = ApiRequest(AccountNumbersEndpoint, accessToken)
  /\ UNCHANGED <<accessToken, brokerage, response, result, promises>>

FetchAccountNumbersResult(endpoint, resp) ==
  IF MakeApiRequestThrows(resp)
  THEN Thrown("fetchAccountNumbers", MakeApiRequestMessage(endpoint, resp))
  ELSE Returned("fetchAccountNumbers", <<>>, resp.body)

ReceiveFetchAccountNumbers ==
  /\ pc = "awaiting"
  /\ call.op = "fetchAccountNumbers"
  /\ \E resp \in {OkResponse(b) : b \in AccountNumberBodies} \cup ErrorResponses :
       /\ response' = resp
       /\ result' = FetchAccountNumbersResult(request.endpoint, resp)
  /\ pc' = "idle"
  /\ call' = NoCall
  /\ request' = NoRequest
  /\ UNCHANGED <<accessToken, brokerage, promises>>

(***************************************************************************)
(* placeOrder(accountHash, order), lines 493-525.                          *)
(***************************************************************************)
AccountHashes == {"", "HASH1"}

Orders == {"order"}

\* lines 500-509
PlaceOrderRequest(accountHash, order, token) ==
  [method |-> "POST",
   base |-> SCHWAB_API_BASE_URL,
   endpoint |-> <<"/trader/v1/accounts/", accountHash, "/orders">>,
   headers |-> <<<<AuthorizationName, Bearer(token)>>,
                 <<ContentTypeName, <<"application/json">>>>>>,
   body |-> order]

\* the Location headers of a 201 response: absent, or a path
Locations ==
  {Null,
   <<"/", "o", "/", "7">>,
   <<"/", "o", "/", "7", "/">>,
   <<"7">>}

PlaceOrderResponses ==
  {[status |-> 201, statusText |-> <<"Created">>, body |-> <<>>, location |-> l] :
     l \in Locations}
  \cup
  {[status |-> 401, statusText |-> st, body |-> b, location |-> Null] :
     st \in {<<>>, <<"Unauthorized">>}, b \in {<<>>, <<"Unauthorized">>}}
  \cup
  {[status |-> 400, statusText |-> <<"Bad", "Request">>, body |-> <<"invalid", "order">>,
    location |-> Null]}

\* locationHeader.split("/").pop()
LastSegment(s) ==
  LET slashes == {k \in 1..Len(s) : s[k] = "/"}
  IN IF slashes = {} THEN s ELSE Slice(s, SetMax(slashes) + 1, Len(s))

Unknown == <<"u", "n", "k", "n", "o", "w", "n">>

\* lines 521-522, with || in place of ??
OrderIdOrUnknown(locationHeader) ==
  IF locationHeader = Null \/ LastSegment(locationHeader) = <<>> THEN Unknown
  ELSE LastSegment(locationHeader)

\* lines 521-522
OrderId(locationHeader) ==
  IF locationHeader = Null THEN Unknown ELSE LastSegment(locationHeader)

\* lines 513-517
FailedToPlaceOrderMessage(resp) ==
  <<"Failed", "to", "place", "order:", ToString(resp.status)>>
    \o resp.statusText \o <<"-">> \o resp.body

\* lines 497-499: the call throws before any request when accountHash is empty
CallPlaceOrder(accountHash, order) ==
  /\ pc = "idle"
  /\ IF accountHash = ""
     THEN /\ result' =
               Thrown("placeOrder",
                      <<"Account", "hash", "is", "required", "to", "place", "an", "order">>)
          /\ response' = NoResponse
          /\ UNCHANGED <<pc, call, request>>
     ELSE /\ pc' = "awaiting"
          /\ call' = [op |-> "placeOrder", arg |-> <<accountHash, order>>]
          /\ request' = PlaceOrderRequest(accountHash, order, accessToken)
          /\ UNCHANGED <<response, result>>
  /\ UNCHANGED <<accessToken, brokerage, promises>>

PlaceOrderResult(arg, resp) ==
  IF ~Ok(resp) THEN Thrown("placeOrder", FailedToPlaceOrderMessage(resp))
  ELSE Returned("placeOrder", arg, [orderId |-> OrderId(resp.location)])

ReceivePlaceOrder ==
  /\ pc = "awaiting"
  /\ call.op = "placeOrder"
  /\ \E resp \in PlaceOrderResponses :
       /\ response' = resp
       /\ result' = PlaceOrderResult(call.arg, resp)
  /\ pc' = "idle"
  /\ call' = NoCall
  /\ request' = NoRequest
  /\ UNCHANGED <<accessToken, brokerage, promises>>

(***************************************************************************)
(* fetchOrders(options) and fetchTransactionHistory(startDate, endDate),   *)
(* lines 409-487: one account-numbers request, then one request per        *)
(* account, issued together and joined by Promise.all.                     *)
(***************************************************************************)
FanOutOps == {"fetchOrders", "fetchTransactionHistory"}

\* the argument of a fan-out call: the options, or the date range
FanOutArgs == {"range"}

\* the account-numbers bodies of a fan-out: those of fetchAccountNumbers and
\* one whose second account has an empty hash value
FanOutAccountBodies ==
  AccountNumberBodies \cup
  {<<[accountNumber |-> "1001", hashValue |-> "HASH1"],
     [accountNumber |-> "1003", hashValue |-> ""]>>}

\* lines 437 and 485: the endpoint of the request for one account
AccountEndpoint(op, accountHash, arg) ==
  IF op = "fetchOrders"
  THEN <<"/trader/v1/accounts/", accountHash, "/orders?", arg>>
  ELSE <<"/trader/v1/accounts/", accountHash, "/transactions?", arg>>

\* lines 431 and 469
AccountHashRequiredMessage(op) ==
  IF op = "fetchOrders"
  THEN <<"Account", "hash", "is", "required", "to", "fetch", "orders">>
  ELSE <<"Account", "hash", "is", "required", "to", "fetch", "transaction", "history">>

Pending(account, req) ==
  [state |-> "pending", account |-> account, request |-> req, response |-> NoResponse,
   value |-> <<>>, message |-> <<>>, at |-> 0]

Fulfilled(promise, resp, at) ==
  [promise EXCEPT !.state = "fulfilled", !.response = resp, !.value = resp.body, !.at = at]

Rejected(promise, resp, message, at) ==
  [promise EXCEPT !.state = "rejected", !.response = resp, !.message = message, !.at = at]

\* lines 425-439 and 459-487 up to the await: fetchAccountTransactionHistory
\* or fetchAccountOrders for the account at index i, the promise being the
\* i-th to be created
StartAccountRequest(op, account, arg, token, i) ==
  IF account.hashValue = ""
  THEN Rejected(Pending(account, NoRequest), NoResponse, AccountHashRequiredMessage(op), i)
  ELSE Pending(account, ApiRequest(AccountEndpoint(op, account.hashValue, arg), token))

\* lines 620-629 for the request of one account
SettleAccountRequest(promise, resp, at) ==
  IF MakeApiRequestThrows(resp)
  THEN Rejected(promise, resp, MakeApiRequestMessage(promise.request.endpoint, resp), at)
  ELSE Fulfilled(promise, resp, at)

Settled(ps) == {i \in DOMAIN ps : ps[i].state # "pending"}

RejectedOnes(ps) == {i \in DOMAIN ps : ps[i].state = "rejected"}

\* the promise that rejected first
FirstRejected(ps) ==
  CHOOSE i \in RejectedOnes(ps) : \A j \in RejectedOnes(ps) : ps[i].at <= ps[j].at

\* Promise.all gives the values by the index of their promise, not in the
\* order the promises settled
ArrivalValues(ps) ==
  [k \in DOMAIN ps |-> ps[CHOOSE i \in DOMAIN ps :
                            Cardinality({j \in DOMAIN ps : ps[j].at < ps[i].at}) = k - 1].value]

JoinedValues(ps) == [i \in DOMAIN ps |-> ps[i].value]

\* lines 419-422 and 453-456
FanOutEntries(op, ps, values) ==
  [i \in DOMAIN ps |->
     IF op = "fetchOrders"
     THEN [accountNumber |-> ps[i].account.accountNumber, orders |-> values[i]]
     ELSE [accountNumber |-> ps[i].account.accountNumber, transactions |-> values[i]]]

\* the state of Promise.all over the promises
JoinState(ps) ==
  IF RejectedOnes(ps) # {} THEN "rejected"
  ELSE IF Settled(ps) = DOMAIN ps THEN "fulfilled"
  ELSE "pending"

\* lines 414-422 and 448-456, once Promise.all has settled
FanOutResult(op, arg, ps) ==
  IF JoinState(ps) = "rejected"
  THEN Thrown(op, ps[FirstRejected(ps)].message)
  ELSE Returned(op, arg, FanOutEntries(op, ps, JoinedValues(ps)))

\* the bodies and failures of the request for one account
AccountResponses ==
  {OkResponse(b) : b \in {<<>>, <<"a">>, <<"b", "c">>}} \cup ErrorResponses

CallFanOut(op, arg) ==
  /\ pc = "idle"
  /\ pc' = "awaiting"
  /\ call' = [op |-> op, arg |-> arg]
  /\ request' = ApiRequest(AccountNumbersEndpoint, accessToken)
  /\ promises' = <<>>
  /\ UNCHANGED <<accessToken, brokerage, response, result>>

\* lines 413-418 and 447-452: the account numbers arrive and the requests of
\* all accounts are issued; the call ends here when the account-numbers
\* request failed, when an account has no hash value, or when there is no
\* account
ReceiveFanOutAccountNumbers ==
  /\ pc = "awaiting"
  /\ call.op \in FanOutOps
  /\ \E resp \in {OkResponse(b) : b \in FanOutAccountBodies} \cup ErrorResponses :
       /\ response' = resp
       /\ IF MakeApiRequestThrows(resp)
          THEN /\ result' = Thrown(call.op, MakeApiRequestMessage(request.endpoint, resp))
               /\ pc' = "idle"
               /\ call' = NoCall
               /\ UNCHANGED promises
          ELSE LET ps == [i \in DOMAIN resp.body |->
                            StartAccountRequest(call.op, resp.body[i], call.arg,
                                                accessToken, i)]
               IN /\ promises' = ps
                  /\ IF JoinState(ps) = "pending"
                     THEN /\ pc' = "joining"
                          /\ UNCHANGED <<call, result>>
                     ELSE /\ pc' = "idle"
                          /\ call' = NoCall
                          /\ result' = FanOutResult(call.op, call.arg, ps)
  /\ request' = NoRequest
  /\ UNCHANGED <<accessToken, brokerage>>

\* the response to the request of account i arrives, in any order; the call
\* ends with the first rejection or with the last fulfilment.  Responses to
\* the requests still in flight after a rejection are discarded by
\* Promise.all and change nothing.
ReceiveAccountResponse(i) ==
  /\ pc = "joining"
  /\ i \in DOMAIN promises
  /\ promises[i].state = "pending"
  /\ \E resp \in AccountResponses :
       LET at == 1 + SetMax({promises[j].at : j \in DOMAIN promises})
           ps == [promises EXCEPT ![i] = SettleAccountRequest(promises[i], resp, at)]
       IN /\ promises' = ps
          /\ response' = resp
          /\ IF JoinState(ps) = "pending"
             THEN UNCHANGED <<pc, call, result>>
             ELSE /\ pc' = "idle"
                  /\ call' = NoCall
                  /\ result' = FanOutResult(call.op, call.arg, ps)
  /\ UNCHANGED <<accessToken, brokerage, request>>

(***************************************************************************)
(* getAvailableExpiries(symbol, contractType, fromDate, toDate), lines     *)
(* 176-199.  An expiration map is the sequence of its keys in insertion    *)
(* order, which is the order of Object.keys, or no map when the response   *)
(* does not carry it; a key is "yyyy-MM-dd:DTE".                           *)
(***************************************************************************)
ContractTypes == {"PUT", "CALL"}

\* the keys "2023-12-15:5", "2024-01-19:30" and "2024-02-16:58"
ExpirationKeys ==
  {<<"2", "0", "2", "3", "-", "1", "2", "-", "1", "5", ":", "5">>,
   <<"2", "0", "2", "4", "-", "0", "1", "-", "1", "9", ":", "3", "0">>,
   <<"2", "0", "2", "4", "-", "0", "2", "-", "1", "6", ":", "5", "8">>}

\* line 194: key.split(":")[0] ?? key
BeforeColon(key) ==
  LET colons == {k \in 1..Len(key) : key[k] = ":"}
  IN IF colons = {} THEN key ELSE Slice(key, 1, SetMin(colons) - 1)

\* line 195: parse(dateStr, "yyyy-MM-dd", new Date()), local midnight
ParseDate(dateStr) ==
  NewDate(ParseInt(Slice(dateStr, 1, 4)),
          ParseInt(Slice(dateStr, 6, 7)) - 1,
          ParseInt(Slice(dateStr, 9, 10)))

\* a.getTime() - b.getTime() < 0 for two local midnights
EarlierDate(a, b) ==
  \/ a.year < b.year
  \/ a.year = b.year /\ a.month < b.month
  \/ a.year = b.year /\ a.month = b.month /\ a.date < b.date

\* line 198: Array.prototype.sort by getTime, stable and ascending
RECURSIVE SortDates(_)
SortDates(seq) ==
  IF Len(seq) <= 1 THEN seq
  ELSE LET rest == SortDates(SubSeq(seq, 1, Len(seq) - 1))
           x == seq[Len(seq)]
           after == {k \in 1..Len(rest) : EarlierDate(x, rest[k])}
           at == IF after = {} THEN Len(rest) + 1 ELSE SetMin(after)
       IN SubSeq(rest, 1, at - 1) \o <<x>> \o SubSeq(rest, at, Len(rest))

\* lines 183-185
ChainsEndpoint(symbol, contractType, fromDate, toDate) ==
  <<"/marketdata/v1/chains?symbol=", symbol, "&contractType=", contractType,
    "&fromDate=", fromDate, "&toDate=", toDate>>

ExpDateMap(keys) == [present |-> TRUE, keys |-> keys]

NoExpDateMap == [present |-> FALSE, keys |-> <<>>]

\* lines 188-198
Expiries(data) ==
  IF ~data.putExpDateMap.present THEN <<>>
  ELSE SortDates([k \in DOMAIN data.putExpDateMap.keys |->
                    ParseDate(BeforeColon(data.putExpDateMap.keys[k]))])

\* the expiration maps a chains response can carry: absent, or up to
\* MaxKeys distinct keys in any order
ExpDateMaps ==
  {NoExpDateMap} \cup
  {ExpDateMap(m) : m \in {ks \in UNION {[1..n -> ExpirationKeys] : n \in 0..MaxKeys} :
                            \A i \in DOMAIN ks, j \in DOMAIN ks : i # j => ks[i] # ks[j]}}

ChainBodies ==
  {[putExpDateMap |-> p, callExpDateMap |-> c] : p \in ExpDateMaps, c \in ExpDateMaps}

CallGetAvailableExpiries(symbol, contractType) ==
  /\ pc = "idle"
  /\ pc' = "awaiting"
  /\ call' = [op |-> "getAvailableExpiries",
              arg |-> [symbol |-> symbol, contractType |-> contractType]]
  /\ request' = ApiRequest(ChainsEndpoint(symbol, contractType, "2025-01-01", "2025-06-30"),
                           accessToken)
  /\ UNCHANGED <<accessToken, brokerage, response, result, promises>>

GetAvailableExpiriesResult(arg, endpoint, resp) ==
  IF MakeApiRequestThrows(resp)
  THEN Thrown("getAvailableExpiries", MakeApiRequestMessage(endpoint, resp))
  ELSE Returned("getAvailableExpiries", arg, Expiries(resp.body))

ReceiveGetAvailableExpiries ==
  /\ pc = "awaiting"
  /\ call.op = "getAvailableExpiries"
  /\ \E resp \in {OkResponse(b) : b \in ChainBodies} \cup ErrorResponses :
       /\ response' = resp
       /\ result' = GetAvailableExpiriesResult(call.arg, request.endpoint, resp)
  /\ pc' = "idle"
  /\ call' = NoCall
  /\ request' = NoRequest
  /\ UNCHANGED <<accessToken, brokerage, promises>>

(***************************************************************************)
(* getRiskFreeRate(_date), lines 94-109, over getQuotes, lines 111-118.    *)
(* A quotes response is the sequence of its entries in insertion order; a  *)
(* quote carries mark and lastPrice as a percentage in thousandths (2000   *)
(* is 2), each of them present (<<v>>) or absent (<<>>), as                *)
(* SchwabQuoteData declares.  A rate is in millionths (20000 is 0.02).     *)
(***************************************************************************)
IRX == <<"$", "I", "R", "X">>

QuoteKeys == {IRX, <<"I", "R", "X">>, <<"$", "I", "R", "X", ".", "X">>, <<"$", "V", "I", "X">>}

QuoteData ==
  {[mark |-> <<2000>>, lastPrice |-> <<5250>>],
   [mark |-> <<>>, lastPrice |-> <<5250>>],
   [mark |-> <<>>, lastPrice |-> <<>>]}

\* the quotes responses: up to MaxQuotes entries with distinct keys
QuoteBodies ==
  {b \in UNION {[1..n -> [key : QuoteKeys, quote : QuoteData]] : n \in 0..MaxQuotes} :
     \A i \in DOMAIN b, j \in DOMAIN b : i # j => b[i].key # b[j].key}

\* the dates a caller passes
RateDates == {"2024-12-20", "2025-01-17"}

\* encodeURIComponent, on the characters of the symbols
EncodeURIComponent(s) ==
  Flatten([k \in DOMAIN s |-> IF s[k] = "$" THEN <<"%", "2", "4">> ELSE <<s[k]>>])

\* lines 114-116, for one symbol
QuotesEndpoint(symbol) ==
  <<"/marketdata/v1/quotes?symbols=">> \o EncodeURIComponent(symbol)

\* quotes[key], <<>> when the key is absent
QuoteAt(quotes, key) ==
  LET at == {k \in DOMAIN quotes : quotes[k].key = key}
  IN IF at = {} THEN <<>> ELSE <<quotes[CHOOSE k \in at : TRUE].quote>>

\* lines 97-101
IrxQuote(quotes) ==
  IF QuoteAt(quotes, IRX) # <<>> THEN QuoteAt(quotes, IRX)
  ELSE IF QuoteAt(quotes, <<"I", "R", "X">>) # <<>> THEN QuoteAt(quotes, <<"I", "R", "X">>)
  ELSE IF QuoteAt(quotes, <<"$", "I", "R", "X", ".", "X">>) # <<>>
  THEN QuoteAt(quotes, <<"$", "I", "R", "X", ".", "X">>)
  ELSE IF Len(quotes) = 1 THEN <<quotes[1].quote>>
  ELSE <<>>

\* line 102, with lastPrice taken before mark
LastPriceFirst(irxQuote) ==
  IF irxQuote = <<>> THEN <<>>
  ELSE IF irxQuote[1].lastPrice # <<>> THEN irxQuote[1].lastPrice
  ELSE irxQuote[1].mark

\* line 102: irxQuote?.quote.mark ?? irxQuote?.quote.lastPrice
RatePercent(irxQuote) ==
  IF irxQuote = <<>> THEN <<>>
  ELSE IF irxQuote[1].mark # <<>> THEN irxQuote[1].mark
  ELSE irxQuote[1].lastPrice

\* line 108: ratePercent / 100, from thousandths to millionths
Rate(ratePercent) == (ratePercent * 1000) \div 100

CallGetRiskFreeRate(date) ==
  /\ pc = "idle"
  /\ pc' = "awaiting"
  /\ call' = [op |-> "getRiskFreeRate", arg |-> date]
  /\ request' = ApiRequest(QuotesEndpoint(IRX), accessToken)
  /\ UNCHANGED <<accessToken, brokerage, response, result, promises>>

GetRiskFreeRateResult(date, endpoint, resp) ==
  IF MakeApiRequestThrows(resp)
  THEN Thrown("getRiskFreeRate", MakeApiRequestMessage(endpoint, resp))
  ELSE IF RatePercent(IrxQuote(resp.body)) = <<>>
  THEN Thrown("getRiskFreeRate",
              <<"Unable", "to", "fetch", "risk-free", "rate", "from", "$IRX", "quote", "data">>)
  ELSE Returned("getRiskFreeRate", date, Rate(RatePercent(IrxQuote(resp.body))[1]))

ReceiveGetRiskFreeRate ==
  /\ pc = "awaiting"
  /\ call.op = "getRiskFreeRate"
  /\ \E resp \in {OkResponse(b) : b \in QuoteBodies} \cup ErrorResponses :
       /\ response' = resp
       /\ result' = GetRiskFreeRateResult(call.arg, request.endpoint, resp)
  /\ pc' = "idle"
  /\ call' = NoCall
  /\ request' = NoRequest
  /\ UNCHANGED <<accessToken, brokerage, promises>>

(***************************************************************************)
(* getPositions(symbol?), lines 295-315.                                   *)
(***************************************************************************)
TickerA == <<"A">>

AAPL == <<"A", "A", "P", "L">>

MSFT == <<"M", "S", "F", "T">>

EquityA == Position("EQUITY", Undefined, TickerA, 0, 10, 150000)

EquityAAPL == Position("EQUITY", Undefined, AAPL, 0, 5, 200000)

EquityMSFT == Position("EQUITY", Undefined, MSFT, 0, 3, 400000)

\* long A 241220 C 150, one contract
CallOnA ==
  Position("OPTION", TickerA,
           OptionSymbol(TickerA, Dec20, "C", <<"0", "0", "1", "5", "0", "0", "0", "0">>),
           0, 1, 4000)

TickerPool == {EquityA, EquityAAPL, EquityMSFT, CallOnA}

\* the symbols a caller passes: none, the empty string, and tickers in
\* either case
PositionSymbols == {Undefined, <<>>, TickerA, <<"a", "a", "p", "l">>}

\* String.prototype.toUpperCase
ToUpperCase(s) ==
  [k \in DOMAIN s |->
     IF \E n \in 1..26 : LowerCaseLetters[n] = s[k]
     THEN UpperCaseLetters[CHOOSE n \in 1..26 : LowerCaseLetters[n] = s[k]]
     ELSE s[k]]

\* String.prototype.startsWith
StartsWith(s, prefix) ==
  /\ Len(prefix) <= Len(s)
  /\ SubSeq(s, 1, Len(prefix)) = prefix

\* lines 300-303
AllPositions(accounts) ==
  Flatten([a \in DOMAIN accounts |-> accounts[a].positions])

\* lines 307-311
MatchesSymbol(pos, upperSymbol) ==
  \/ StartsWith(ToUpperCase(pos.symbol), upperSymbol)
  \/ pos.underlyingSymbol # Undefined /\ ToUpperCase(pos.underlyingSymbol) = upperSymbol

\* Array.prototype.filter
RECURSIVE Filter(_, _)
Filter(seq, keep) ==
  IF seq = <<>> THEN <<>>
  ELSE (IF keep[1] THEN <<seq[1]>> ELSE <<>>) \o Filter(Tail(seq), Tail(keep))

\* lines 305-314
Positions(accounts, symbol) ==
  LET allPositions == AllPositions(accounts)
  IN IF symbol = Undefined \/ symbol = <<>> THEN allPositions
     ELSE Filter(allPositions,
                 [k \in DOMAIN allPositions |->
                    MatchesSymbol(allPositions[k], ToUpperCase(symbol))])

CallGetPositions(symbol) ==
  /\ pc = "idle"
  /\ pc' = "awaiting"
  /\ call' = [op |-> "getPositions", arg |-> symbol]
  /\ request' = ApiRequest(AccountsEndpoint, accessToken)
  /\ UNCHANGED <<accessToken, brokerage, response, result, promises>>

GetPositionsResult(symbol, endpoint, resp) ==
  IF MakeApiRequestThrows(resp)
  THEN Thrown("getPositions", MakeApiRequestMessage(endpoint, resp))
  ELSE IF ThrowsTypeError(resp.body)
  THEN Thrown("getPositions", <<"TypeError">>)
  ELSE Returned("getPositions", symbol, Positions(resp.body, symbol))

ReceiveGetPositions ==
  /\ pc = "awaiting"
  /\ call.op = "getPositions"
  /\ \E resp \in {OkResponse(brokerage)} \cup ErrorResponses :
       /\ response' = resp
       /\ result' = GetPositionsResult(call.arg, request.endpoint, resp)
  /\ pc' = "idle"
  /\ call' = NoCall
  /\ request' = NoRequest
  /\ UNCHANGED <<accessToken, brokerage, promises>>

(***************************************************************************)
(* getPriceHistory({symbol, days, startDate, endDate}), lines 120-167.     *)
(* Times are in hours since the epoch; an optional argument is <<v>> when  *)
(* given and <<>> when not.                                                *)
(***************************************************************************)
\* Date.now(), in hours
Now == 24 * 200

\* the start dates a caller passes, as hours before Now: the same hour, a day
\* short of or past an hour, the thresholds of the periods and a day past
\* them, and a start after the end
StartsBeforeNow ==
  {0, 23, 24, 25, 22 * 24 + 23, 23 * 24, 44 * 24, 45 * 24, 66 * 24 + 1, 67 * 24,
   132 * 24, 133 * 24, 0 - 48}

\* the arguments a caller passes: a number of days, with or without a start
\* date, or no number of days and any start and end
PriceHistoryArgs ==
  {[symbol |-> AAPL, days |-> <<n>>, startDate |-> s, endDate |-> <<>>] :
     n \in 0..MaxDays, s \in {<<>>, <<Now - 44 * 24>>}}
  \cup
  {[symbol |-> AAPL, days |-> <<>>, startDate |-> s, endDate |-> e] :
     s \in {<<>>} \cup {<<Now - h>> : h \in StartsBeforeNow},
     e \in {<<>>, <<Now>>}}

\* differenceInDays(endDate, startDate): the whole days between the two,
\* truncated towards zero
DifferenceInDays(endDate, startDate) ==
  IF endDate >= startDate
  THEN (endDate - startDate) \div 24
  ELSE 0 - ((startDate - endDate) \div 24)

\* line 124: endDate = Date.now() when not given
EndDate(args) == IF args.endDate = <<>> THEN Now ELSE args.endDate[1]

\* lines 132-133; a startDate of 0 is not distinguished from none
EffectiveDays(args) ==
  IF args.days # <<>> THEN args.days[1]
  ELSE IF args.startDate # <<>> /\ args.startDate[1] # 0
  THEN DifferenceInDays(EndDate(args), args.startDate[1])
  ELSE 30

\* lines 136-137
PeriodType(effectiveDays) == IF effectiveDays > 132 THEN "year" ELSE "month"

\* lines 138-146, with three months given up to 44 days only
PeriodWithoutQuarter(effectiveDays) ==
  IF effectiveDays > 132 THEN 1
  ELSE IF effectiveDays <= 22 THEN 1
  ELSE IF effectiveDays <= 44 THEN 2
  ELSE 6

\* lines 138-146
Period(effectiveDays) ==
  IF effectiveDays > 132 THEN 1
  ELSE IF effectiveDays <= 22 THEN 1
  ELSE IF effectiveDays <= 44 THEN 2
  ELSE IF effectiveDays <= 66 THEN 3
  ELSE 6

\* lines 147-157: the URLSearchParams, as the sequence of their pairs
PriceHistoryParams(args) ==
  <<<<"symbol", args.symbol>>,
    <<"periodType", PeriodType(EffectiveDays(args))>>,
    <<"period", ToString(Period(EffectiveDays(args)))>>,
    <<"frequencyType", "daily">>,
    <<"frequency", "1">>,
    <<"endDate", ToString(EndDate(args))>>>>
  \o (IF args.startDate # <<>> /\ args.startDate[1] # 0
      THEN <<<<"startDate", ToString(args.startDate[1])>>>> ELSE <<>>)

\* line 159
PriceHistoryEndpoint(args) == <<"/marketdata/v1/pricehistory?", PriceHistoryParams(args)>>

\* PriceHistoryCandle: two candles of one datetime and one of a later one,
\* told apart by their close
Candle(datetime, close) == [datetime |-> datetime, close |-> close]

CandlePool == {Candle(10, 1), Candle(20, 2), Candle(10, 3)}

\* the candles of a response, in the order sent
CandleLists == UNION {[1..n -> CandlePool] : n \in 0..MaxCandles}

\* PriceHistoryResponse: flagged empty, with no candle or with one, or not
\* flagged, with the candles in any order
PriceHistoryBodies ==
  {[empty |-> TRUE, candles |-> c] : c \in {<<>>, <<Candle(10, 1)>>}} \cup
  {[empty |-> FALSE, candles |-> c] : c \in CandleLists}

\* line 166: Array.prototype.sort by a.datetime - b.datetime, stable and
\* ascending
RECURSIVE SortCandles(_)
SortCandles(candles) ==
  IF Len(candles) <= 1 THEN candles
  ELSE LET rest == SortCandles(SubSeq(candles, 1, Len(candles) - 1))
           x == candles[Len(candles)]
           after == {k \in 1..Len(rest) : x.datetime - rest[k].datetime < 0}
           at == IF after = {} THEN Len(rest) + 1 ELSE SetMin(after)
       IN SubSeq(rest, 1, at - 1) \o <<x>> \o SubSeq(rest, at, Len(rest))

\* lines 162-166, with the candles returned in the order received
CandlesAsReceived(data) == IF data.empty THEN <<>> ELSE data.candles

\* lines 162-166
Candles(data) == IF data.empty THEN <<>> ELSE SortCandles(data.candles)

CallGetPriceHistory(args) ==
  /\ pc = "idle"
  /\ pc' = "awaiting"
  /\ call' = [op |-> "getPriceHistory", arg |-> args]
  /\ request' = ApiRequest(PriceHistoryEndpoint(args), accessToken)
  /\ UNCHANGED <<accessToken, brokerage, response, result, promises>>

GetPriceHistoryResult(args, endpoint, resp) ==
  IF MakeApiRequestThrows(resp)
  THEN Thrown("getPriceHistory", MakeApiRequestMessage(endpoint, resp))
  ELSE Returned("getPriceHistory", args.symbol, Candles(resp.body))

ReceiveGetPriceHistory ==
  /\ pc = "awaiting"
  /\ call.op = "getPriceHistory"
  /\ \E resp \in {OkResponse(b) : b \in PriceHistoryBodies} \cup ErrorResponses :
       /\ response' = resp
       /\ result' = GetPriceHistoryResult(call.arg, request.endpoint, resp)
  /\ pc' = "idle"
  /\ call' = NoCall
  /\ request' = NoRequest
  /\ UNCHANGED <<accessToken, brokerage, promises>>

(***************************************************************************)
(* new SchwabClient(accessToken), lines 84-88, and makeApiRequest called   *)
(* with options, lines 602-631.  Before the construction pc is "new" and   *)
(* accessToken holds nothing.                                              *)
(***************************************************************************)
\* the tokens a caller constructs a client with
AccessTokens == {"", Token, "renewed"}

\* line 86
AccessTokenRequiredMessage == <<"Access", "token", "is", "required">>

Construct(token) ==
  /\ pc = "new"
  /\ IF token = ""
     THEN /\ result' = Thrown("constructor", AccessTokenRequiredMessage)
          /\ UNCHANGED <<accessToken, pc>>
     ELSE /\ result' = Returned("constructor", token, <<>>)
          /\ accessToken' = token
          /\ pc' = "idle"
  /\ UNCHANGED <<brokerage, call, request, response, promises>>

UserPreferenceEndpoint == <<"/trader/v1/userPreference">>

\* a credential that is not the client's
Foreign == Bearer("foreign")

\* the options a call of makeApiRequest is given: none, and headers in each
\* form RequestInit allows, with an Authorization of their own spelt as the
\* client spells it or in lower case, or with no Authorization
RequestOptions ==
  {NoOptions,
   [headers |-> HeaderObject(<<<<AuthorizationName, Foreign>>>>)],
   [headers |-> HeaderObject(<<<<ToLowerCase(AuthorizationName), Foreign>>>>)],
   [headers |-> HeaderObject(<<<<AcceptName, <<"application/json">>>>>>)],
   [headers |-> HeaderArray(<<<<AuthorizationName, Foreign>>, <<AcceptName, <<>>>>>>)],
   [headers |-> HeadersInstance(<<<<AuthorizationName, Foreign>>>>)]}

CallMakeApiRequest(endpoint, options) ==
  /\ pc = "idle"
  /\ pc' = "awaiting"
  /\ call' = [op |-> "makeApiRequest", arg |-> options]
  /\ request' = FetchRequest(endpoint, options, accessToken)
  /\ UNCHANGED <<accessToken, brokerage, response, result, promises>>

\* lines 620-630
MakeApiRequestResult(endpoint, resp) ==
  IF MakeApiRequestThrows(resp)
  THEN Thrown("makeApiRequest", MakeApiRequestMessage(endpoint, resp))
  ELSE Returned("makeApiRequest", <<>>, resp.body)

ReceiveMakeApiRequest ==
  /\ pc = "awaiting"
  /\ call.op = "makeApiRequest"
  /\ \E resp \in {OkResponse(<<>>)} \cup ErrorResponses :
       /\ response' = resp
       /\ result' = MakeApiRequestResult(request.endpoint, resp)
  /\ pc' = "idle"
  /\ call' = NoCall
  /\ request' = NoRequest
  /\ UNCHANGED <<accessToken, brokerage, promises>>

(***************************************************************************)
(* The specifications.  The accounts the brokerage holds do not change in  *)
(* a behaviour; the initial states range over the accounts responses       *)
(* within the bounds, built from the positions of one pool.                *)
(***************************************************************************)
\* line 84-88: a constructed client holds a non-empty token
InitClient ==
  /\ accessToken = Token
  /\ pc = "idle"
  /\ call = NoCall
  /\ request = NoRequest
  /\ response = NoResponse
  /\ result = NoResult
  /\ promises = <<>>

InitBrokerage(pool, presence) ==
  \E k \in 0..MaxPositions, m \in 0..MaxAccounts :
    \E ps \in [1..k -> pool], ends \in [1..m -> 0..k], present \in [1..m -> presence] :
      /\ IsCut(ps, ends, present)
      /\ brokerage = BuildAccounts(ps, ends, present)

Init == InitClient /\ InitBrokerage(PairingPool, {TRUE})

InitSymbols == InitClient /\ InitBrokerage(SymbolPool, BOOLEAN)

InitFilter == InitClient /\ InitBrokerage(FilterPool, {TRUE})

InitHttp ==
  /\ InitClient
  /\ brokerage \in {<<>>, <<Account(<<ShortPut5900, LongPut5800>>)>>}

Next ==
  \/ \E symbol \in Underlyings : CallGetPutCreditSpreads(symbol)
  \/ ReceiveGetPutCreditSpreads

NextHttp ==
  \/ \E symbol \in Underlyings : CallGetPutCreditSpreads(symbol)
  \/ ReceiveGetPutCreditSpreads
  \/ CallFetchAccountNumbers
  \/ ReceiveFetchAccountNumbers
  \/ \E accountHash \in AccountHashes, order \in Orders : CallPlaceOrder(accountHash, order)
  \/ ReceivePlaceOrder
  \/ \E op \in FanOutOps, arg \in FanOutArgs : CallFanOut(op, arg)
  \/ ReceiveFanOutAccountNumbers
  \/ \E i \in 1..MaxAccounts : ReceiveAccountResponse(i)

\* reconstruction over the pairing positions
Spec == Init /\ [][Next]_vars

\* reconstruction over well-formed and malformed option symbols
SpecSymbols == InitSymbols /\ [][Next]_vars

\* reconstruction over option and non-option positions of several underlyings
SpecFilter == InitFilter /\ [][Next]_vars

\* the request and response cycle of the operations
SpecHttp == InitHttp /\ [][NextHttp]_vars

InitIdle ==
  /\ InitClient
  /\ brokerage = <<>>

NextChain ==
  \/ \E symbol \in {SPX}, contractType \in ContractTypes :
       CallGetAvailableExpiries(symbol, contractType)
  \/ ReceiveGetAvailableExpiries

\* the expirations of an option chain
SpecChain == InitIdle /\ [][NextChain]_vars

NextQuotes ==
  \/ \E date \in RateDates : CallGetRiskFreeRate(date)
  \/ ReceiveGetRiskFreeRate

\* the risk-free rate from the quotes of the treasury-bill yield
SpecQuotes == InitIdle /\ [][NextQuotes]_vars

InitTickers == InitClient /\ InitBrokerage(TickerPool, {TRUE})

NextPositions ==
  \/ \E symbol \in PositionSymbols : CallGetPositions(symbol)
  \/ ReceiveGetPositions

\* the positions of the accounts, by ticker
SpecPositions == InitTickers /\ [][NextPositions]_vars

\* one account of up to MaxExpiryLegs positions
InitExpiry ==
  /\ InitClient
  /\ \E n \in 0..MaxExpiryLegs : \E ps \in [1..n -> ExpiryPool] : brokerage = <<Account(ps)>>

\* reconstruction over expiry codes that are and are not calendar dates
SpecExpiry == InitExpiry /\ [][Next]_vars

NextHistory ==
  \/ \E args \in PriceHistoryArgs : CallGetPriceHistory(args)
  \/ ReceiveGetPriceHistory

\* the price history of a symbol
SpecHistory == InitIdle /\ [][NextHistory]_vars

\* before new SchwabClient(...): no client, no call, no request
InitNew ==
  /\ accessToken = ""
  /\ pc = "new"
  /\ call = NoCall
  /\ request = NoRequest
  /\ response = NoResponse
  /\ result = NoResult
  /\ promises = <<>>
  /\ brokerage \in {<<>>, <<Account(<<ShortPut5900, LongPut5800>>)>>}

NextClient ==
  \/ \E token \in AccessTokens : Construct(token)
  \/ NextHttp
  \/ \E options \in RequestOptions : CallMakeApiRequest(UserPreferenceEndpoint, options)
  \/ ReceiveMakeApiRequest

\* the construction of a client and the requests it sends
SpecClient == InitNew /\ [][NextClient]_vars

(***************************************************************************)
(* The vocabulary of the properties: option symbols as the specification   *)
(* describes them, read from the end of the symbol.                        *)
(***************************************************************************)
\* the start of the trailing run of digits
DigitRunStart(s) == SetMin({k \in 1..(Len(s) + 1) : AllIn(s, k, Len(s), Digit)})

\* the trailing run of digits as an integer: the strike in thousandths
DecodedStrike ==
  [s \in KnownSymbols |-> ParseInt(Slice(s, DigitRunStart(s), Len(s)))]

\* the character before the trailing run of digits
Marker ==
  [s \in KnownSymbols |-> IF DigitRunStart(s) >= 2 THEN s[DigitRunStart(s) - 1] ELSE ""]

\* the six characters before the marker
ExpiryCode ==
  [s \in KnownSymbols |->
     IF DigitRunStart(s) >= 8
     THEN Slice(s, DigitRunStart(s) - 7, DigitRunStart(s) - 2) ELSE <<>>]

\* <root><whitespace><6 digits><P or C><strike digits>, the strike run being
\* of one of the given lengths
HasFormat(s, rootChars, strikeLengths) ==
  LET d == DigitRunStart(s) IN
  /\ (Len(s) - d + 1) \in strikeLengths
  /\ d >= 9
  /\ s[d - 1] \in {"P", "C"}
  /\ AllIn(s, d - 7, d - 2, Digit)
  /\ \E r \in 1..(d - 8) :
       /\ AllIn(s, 1, r, rootChars)
       /\ AllIn(s, r + 1, d - 8, SpaceChar)

AnyChar == WordChar \cup {".", "/", "$"}

\* the fixed format: an eight-digit strike
FixedFormat == [s \in KnownSymbols |-> HasFormat(s, AnyChar, {8})]

\* the pattern: a root of word characters, a strike of one or more digits
PatternFormat == [s \in KnownSymbols |-> HasFormat(s, WordChar, 1..Len(s))]

IsPutLeg(pos, target) ==
  /\ pos.assetType = "OPTION"
  /\ pos.underlyingSymbol = target
  /\ PatternFormat[pos.symbol]
  /\ Marker[pos.symbol] = "P"

IsShortPutLeg(pos, target) == IsPutLeg(pos, target) /\ pos.shortQuantity > 0

IsLongPutLeg(pos, target) == IsPutLeg(pos, target) /\ pos.longQuantity > 0

IsCallLeg(pos) == Marker[pos.symbol] = "C"

\* a short put and a long put of the target with the same expiry code, the
\* long strike below the short strike
IsCreditPair(short, long, target) ==
  /\ IsShortPutLeg(short, target)
  /\ IsLongPutLeg(long, target)
  /\ ExpiryCode[short.symbol] = ExpiryCode[long.symbol]
  /\ DecodedStrike[long.symbol] < DecodedStrike[short.symbol]

\* the economics of the Spread of a pair
HasEconomicsOf(spread, short, long) ==
  /\ spread.shortStrike = DecodedStrike[short.symbol]
  /\ spread.longStrike = DecodedStrike[long.symbol]
  /\ spread.quantity = Min(short.shortQuantity, long.longQuantity)
  /\ spread.credit = short.averagePrice - long.averagePrice
  /\ spread.theoreticalMaxLossPts =
       (spread.shortStrike - spread.longStrike) - spread.credit

\* the legs <<account, index>> of an accounts response
Legs(accounts) ==
  UNION {{<<a, i>> : i \in 1..Len(accounts[a].positions)} : a \in 1..Len(accounts)}

LegAt(accounts, l) == accounts[l[1]].positions[l[2]]

RemoveIndex(seq, i) == SubSeq(seq, 1, i - 1) \o SubSeq(seq, i + 1, Len(seq))

RemoveLeg(accounts, l) ==
  [accounts EXCEPT ![l[1]].positions = RemoveIndex(accounts[l[1]].positions, l[2])]

RemoveLegs(accounts, Drop(_)) ==
  [a \in 1..Len(accounts) |->
     [accounts[a] EXCEPT !.positions = SelectSeq(accounts[a].positions, LAMBDA pos : ~Drop(pos))]]

\* the pairs the reconstruction emits, with their account
EmittedPairs(accounts, target) ==
  UNION {{<<a, pair[1], pair[2]>> :
            pair \in {AccountPairs(accounts[a].positions, target)[k] :
                        k \in 1..Len(AccountPairs(accounts[a].positions, target))}} :
         a \in 1..Len(accounts)}

\* getPutCreditSpreads has returned a Spread list for the response held
Reconstructed ==
  /\ pc = "idle"
  /\ result.op = "getPutCreditSpreads"
  /\ result.kind = "value"

SpreadIndices == 1..Len(result.value)

(***************************************************************************)
(* C1.  Every Spread returned by getPutCreditSpreads is built from a short *)
(* put leg (shortQuantity > 0) and a long put leg (longQuantity > 0) of    *)
(* the target underlying with the same six-digit expiry code, and its      *)
(* longStrike is strictly below its shortStrike; no pair whose long strike *)
(* is greater than or equal to its short strike is emitted.                *)
(***************************************************************************)
SpreadsAreShortOverLowerLong ==
  Reconstructed =>
    /\ \A k \in SpreadIndices :
         /\ result.value[k].longStrike < result.value[k].shortStrike
         /\ \E s \in Legs(response.body), l \in Legs(response.body) :
              /\ IsShortPutLeg(LegAt(response.body, s), result.arg)
              /\ IsLongPutLeg(LegAt(response.body, l), result.arg)
              /\ ExpiryCode[LegAt(response.body, s).symbol]
                   = ExpiryCode[LegAt(response.body, l).symbol]
              /\ result.value[k].shortStrike = DecodedStrike[LegAt(response.body, s).symbol]
              /\ result.value[k].longStrike = DecodedStrike[LegAt(response.body, l).symbol]
    /\ \A e \in EmittedPairs(response.body, result.arg) :
         DecodedStrike[LegAt(response.body, <<e[1], e[3]>>).symbol]
           < DecodedStrike[LegAt(response.body, <<e[1], e[2]>>).symbol]

\* Spreads were returned for an account that also holds a short put and a
\* long put at the same strike and expiry
SpreadsBesideEqualStrikes ==
  /\ Reconstructed
  /\ result.value # <<>>
  /\ \E s \in Legs(response.body), l \in Legs(response.body) :
       /\ s[1] = l[1]
       /\ IsShortPutLeg(LegAt(response.body, s), result.arg)
       /\ IsLongPutLeg(LegAt(response.body, l), result.arg)
       /\ ExpiryCode[LegAt(response.body, s).symbol]
            = ExpiryCode[LegAt(response.body, l).symbol]
       /\ DecodedStrike[LegAt(response.body, l).symbol]
            = DecodedStrike[LegAt(response.body, s).symbol]

(***************************************************************************)
(* C2.  For every short put leg S and long put leg L of the target in one  *)
(* account that share an expiry code with strike(L) < strike(S), a Spread  *)
(* is emitted with quantity = min(S.shortQuantity, L.longQuantity), credit *)
(* = S.averagePrice - L.averagePrice, the strikes decoded from the         *)
(* trailing digit runs and max loss = (shortStrike - longStrike) - credit, *)
(* and every emitted Spread is the Spread of such a pair; short SPX 241220 *)
(* P 5900 at 12.50 over long SPX 241220 P 5800 at 7.00 gives 5900, 5800,   *)
(* credit 5.50, quantity 1, max loss 94.50.                                *)
(***************************************************************************)
SpreadEconomics ==
  Reconstructed =>
    /\ \A s \in Legs(response.body), l \in Legs(response.body) :
         (/\ s[1] = l[1]
          /\ IsCreditPair(LegAt(response.body, s), LegAt(response.body, l), result.arg))
         => \E k \in SpreadIndices :
              /\ result.value[k].underlying = result.arg
              /\ HasEconomicsOf(result.value[k], LegAt(response.body, s),
                                LegAt(response.body, l))
    /\ \A k \in SpreadIndices :
         \E s \in Legs(response.body), l \in Legs(response.body) :
           /\ IsCreditPair(LegAt(response.body, s), LegAt(response.body, l), result.arg)
           /\ HasEconomicsOf(result.value[k], LegAt(response.body, s),
                             LegAt(response.body, l))
    /\ (response.body = <<Account(<<ShortPut5900, LongPut5800>>)>> /\ result.arg = SPX)
         => /\ Len(result.value) = 1
            /\ result.value[1].shortStrike = 5900 * 1000
            /\ result.value[1].longStrike = 5800 * 1000
            /\ result.value[1].credit = 5500
            /\ result.value[1].quantity = 1
            /\ result.value[1].theoreticalMaxLossPts = 94500

\* the Spread of the short 5900 put over the long 5800 put was returned
ExampleSpreadReturned ==
  /\ Reconstructed
  /\ response.body = <<Account(<<ShortPut5900, LongPut5800>>)>>
  /\ result.arg = SPX
  /\ result.value # <<>>

(***************************************************************************)
(* C3.  For every expiry code the number of Spreads emitted equals the     *)
(* number of (short put leg, long put leg) pairs of one account with that  *)
(* code and long strike < short strike, position records counted one by    *)
(* one: short legs at 5900 and 5950 over one long leg at 5800 give exactly *)
(* two Spreads that share the long leg, and a duplicated short leg gives   *)
(* two Spreads.                                                            *)
(***************************************************************************)
CreditPairs(accounts, target, code) ==
  {e \in (1..Len(accounts)) \X (1..MaxPositions) \X (1..MaxPositions) :
     /\ e[2] <= Len(accounts[e[1]].positions)
     /\ e[3] <= Len(accounts[e[1]].positions)
     /\ ExpiryCode[LegAt(accounts, <<e[1], e[2]>>).symbol] = code
     /\ IsCreditPair(LegAt(accounts, <<e[1], e[2]>>), LegAt(accounts, <<e[1], e[3]>>), target)}

ExpiryCodes(accounts) == {ExpiryCode[LegAt(accounts, l).symbol] : l \in Legs(accounts)}

EverySpreadOfEveryPair ==
  Reconstructed =>
    /\ \A code \in ExpiryCodes(response.body) :
         Len(code) = 6 =>
           Cardinality({k \in SpreadIndices : result.value[k].expiry = ExpiryDate(code)})
             = Cardinality(CreditPairs(response.body, result.arg, code))
    /\ Len(result.value)
         = Cardinality(UNION {CreditPairs(response.body, result.arg, code) :
                                code \in ExpiryCodes(response.body)})
    /\ (/\ result.arg = SPX
        /\ response.body \in {<<Account(<<ShortPut5900, ShortPut5950, LongPut5800>>)>>,
                              <<Account(<<LongPut5800, ShortPut5950, ShortPut5900>>)>>})
         => /\ Len(result.value) = 2
            /\ \A k \in SpreadIndices : result.value[k].longStrike = 5800 * 1000
            /\ {result.value[k].shortStrike : k \in SpreadIndices}
                 = {5900 * 1000, 5950 * 1000}
    /\ (/\ result.arg = SPX
        /\ response.body = <<Account(<<ShortPut5900, ShortPut5900, LongPut5800>>)>>)
         => Len(result.value) = 2

\* two Spreads were returned for short legs at 5900 and 5950 over one long leg
TwoShortsOverOneLong ==
  /\ Reconstructed
  /\ result.arg = SPX
  /\ response.body = <<Account(<<ShortPut5900, ShortPut5950, LongPut5800>>)>>
  /\ Len(result.value) = 2

(***************************************************************************)
(* C4.  No call leg is the short leg or the long leg of an emitted pair,   *)
(* and the Spreads returned are those of the response without its call     *)
(* legs, also when the ticker holds the letter P and when a put or call of *)
(* a lower or higher strike has the same expiry.                           *)
(***************************************************************************)
NoCallLegInSpreads ==
  Reconstructed =>
    /\ \A e \in EmittedPairs(response.body, result.arg) :
         /\ ~IsCallLeg(LegAt(response.body, <<e[1], e[2]>>))
         /\ ~IsCallLeg(LegAt(response.body, <<e[1], e[3]>>))
    /\ result.value = Spreads(RemoveLegs(response.body, IsCallLeg), result.arg)

\* Spreads were returned for an account that holds a call beside a short put
\* of a higher strike with the same expiry
SpreadsBesideCall ==
  /\ Reconstructed
  /\ result.value # <<>>
  /\ \E c \in Legs(response.body), s \in Legs(response.body) :
       /\ c[1] = s[1]
       /\ IsCallLeg(LegAt(response.body, c))
       /\ LegAt(response.body, c).longQuantity > 0
       /\ IsShortPutLeg(LegAt(response.body, s), result.arg)
       /\ ExpiryCode[LegAt(response.body, c).symbol]
            = ExpiryCode[LegAt(response.body, s).symbol]
       /\ DecodedStrike[LegAt(response.body, c).symbol]
            < DecodedStrike[LegAt(response.body, s).symbol]

(***************************************************************************)
(* C5, as stated.  A position whose option symbol does not have the fixed  *)
(* format <underlying><whitespace><6 digits><P or C><8-digit strike> is in *)
(* no emitted pair, raises no error, and the Spreads returned are those of *)
(* the response without that position.                                     *)
(***************************************************************************)
ExcludedUnless(format) ==
  /\ (/\ pc = "idle"
      /\ result.op = "getPutCreditSpreads"
      /\ Ok(response)
      /\ \A a \in 1..Len(response.body) : response.body[a].positionsPresent)
       => result.kind = "value"
  /\ Reconstructed =>
       \A l \in Legs(response.body) :
         ~format[LegAt(response.body, l).symbol] =>
           /\ \A e \in EmittedPairs(response.body, result.arg) :
                <<e[1], e[2]>> # l /\ <<e[1], e[3]>> # l
           /\ result.value = Spreads(RemoveLeg(response.body, l), result.arg)

OffFormatSymbolsExcluded == ExcludedUnless(FixedFormat)

(***************************************************************************)
(* C5, amended.  A position whose option symbol does not match the pattern *)
(* <one or more word characters><optional whitespace><6 digits><P or C>    *)
(* <one or more digits> is in no emitted pair, raises no error, and the    *)
(* Spreads returned are those of the response without that position; the   *)
(* strike field need not have eight digits.                                *)
(***************************************************************************)
UnmatchedSymbolsExcluded == ExcludedUnless(PatternFormat)

\* Spreads were returned for a response that holds a symbol off the pattern
SpreadsBesideUnmatchedSymbol ==
  /\ Reconstructed
  /\ result.value # <<>>
  /\ \E l \in Legs(response.body) :
       /\ ~PatternFormat[LegAt(response.body, l).symbol]
       /\ IsTargetOption(LegAt(response.body, l), result.arg)
       /\ LegAt(response.body, l).longQuantity > 0

(***************************************************************************)
(* C6.  Only positions whose asset type is OPTION and whose                *)
(* underlyingSymbol equals the target exactly take part: the Spreads       *)
(* returned are those of the response without any one other position, and  *)
(* a response with no such position yields an empty list.                  *)
(***************************************************************************)
TakesPart(pos, target) == pos.assetType = "OPTION" /\ pos.underlyingSymbol = target

OnlyTargetOptionsTakePart ==
  Reconstructed =>
    /\ \A l \in Legs(response.body) :
         ~TakesPart(LegAt(response.body, l), result.arg) =>
           result.value = Spreads(RemoveLeg(response.body, l), result.arg)
    /\ (\A l \in Legs(response.body) : ~TakesPart(LegAt(response.body, l), result.arg))
         => result.value = <<>>

\* Spreads were returned for an account that also holds a long position that
\* is no option of the target
SpreadsBesideOtherPosition ==
  /\ Reconstructed
  /\ result.value # <<>>
  /\ \E l \in Legs(response.body) :
       /\ ~TakesPart(LegAt(response.body, l), result.arg)
       /\ LegAt(response.body, l).longQuantity > 0
       /\ \E s \in Legs(response.body) :
            s[1] = l[1] /\ IsShortPutLeg(LegAt(response.body, s), result.arg)

(***************************************************************************)
(* C7, as stated.  A short put held in one account and a lower-strike long *)
(* put of the same underlying and expiry code held in another account are  *)
(* paired into a Spread, as if both legs were in the same account.         *)
(***************************************************************************)
PairsAcrossAccounts ==
  Reconstructed =>
    \A s \in Legs(response.body), l \in Legs(response.body) :
      (/\ s[1] # l[1]
       /\ IsCreditPair(LegAt(response.body, s), LegAt(response.body, l), result.arg))
      => \E k \in SpreadIndices :
           HasEconomicsOf(result.value[k], LegAt(response.body, s), LegAt(response.body, l))

(***************************************************************************)
(* C7, amended.  The positions are reconstructed account by account: the   *)
(* Spread list is the concatenation, in account order, of the lists each   *)
(* account yields alone, every Spread is the Spread of a short put and a   *)
(* lower-strike long put of one account, and a response whose accounts     *)
(* hold at most one position each yields no Spread.                        *)
(***************************************************************************)
PairsWithinAccounts ==
  Reconstructed =>
    /\ result.value =
         Flatten([a \in 1..Len(response.body) |->
                    Spreads(<<response.body[a]>>, result.arg)])
    /\ \A k \in SpreadIndices :
         \E s \in Legs(response.body), l \in Legs(response.body) :
           /\ s[1] = l[1]
           /\ IsCreditPair(LegAt(response.body, s), LegAt(response.body, l), result.arg)
           /\ HasEconomicsOf(result.value[k], LegAt(response.body, s),
                             LegAt(response.body, l))
    /\ (\A a \in 1..Len(response.body) : Len(response.body[a].positions) <= 1)
         => result.value = <<>>

\* a Spread list was returned for a short put in one account and a
\* lower-strike long put of the same expiry in another
ReturnedForLegsInTwoAccounts ==
  /\ Reconstructed
  /\ \E s \in Legs(response.body), l \in Legs(response.body) :
       /\ s[1] # l[1]
       /\ IsCreditPair(LegAt(response.body, s), LegAt(response.body, l), result.arg)

(***************************************************************************)
(* C8.  Once the accounts response has been received successfully,         *)
(* getPutCreditSpreads returns a Spread list and raises no error, whatever *)
(* the response holds.                                                     *)
(***************************************************************************)
ReconstructionNeverThrows ==
  (pc = "idle" /\ result.op = "getPutCreditSpreads" /\ Ok(response))
    => result.kind = "value"

UnauthorizedOn401 ==
  (pc = "idle" /\ response.status = 401)
    => (result.kind = "error" /\ Includes(result.message, "Unauthorized"))

(***************************************************************************)
(* C11.  No operation returns a value built from a failed request: a       *)
(* response with a non-success status ends the operation that receives it  *)
(* in an error; an operation that returns a value received only success    *)
(* responses; and fetchOrders and fetchTransactionHistory return a value   *)
(* only when the account-numbers request and the request of every account  *)
(* succeeded, with one entry per account and never a partial list.         *)
(***************************************************************************)
NoValueFromFailedRequest ==
  [][(pc # "idle")
     => /\ ~Ok(response') => (pc' = "idle" /\ result'.kind = "error")
        /\ (pc' = "idle" /\ result'.kind = "value")
           => /\ Ok(response')
              /\ result'.op \in FanOutOps
                 => /\ Len(result'.value) = Len(promises')
                    /\ \A i \in DOMAIN promises' :
                         /\ promises'[i].state = "fulfilled"
                         /\ Ok(promises'[i].response)]_vars

\* fetchOrders ended in an error after the request of one account succeeded
\* and the request of another failed
FanOutFailedByOneAccount ==
  /\ pc = "idle"
  /\ result.op = "fetchOrders"
  /\ result.kind = "error"
  /\ \E i \in DOMAIN promises, j \in DOMAIN promises :
       /\ promises[i].state = "fulfilled"
       /\ promises[j].state = "rejected"
       /\ promises[j].response.status = 500

(***************************************************************************)
(* C12.  fetchOrders and fetchTransactionHistory issue one request per     *)
(* account of the account-numbers response, with that account's hash       *)
(* value, and return one entry per account in the order of that response:  *)
(* entry i carries account i's number and the body of the response to      *)
(* account i's request, in whatever order the responses arrived.           *)
(***************************************************************************)
EntryItems(op, entry) ==
  IF op = "fetchOrders" THEN entry.orders ELSE entry.transactions

EntriesFollowAccounts ==
  [][(pc # "idle" /\ call.op \in FanOutOps)
     => /\ (pc = "awaiting" /\ Ok(response'))
           => /\ Len(promises') = Len(response'.body)
              /\ \A i \in DOMAIN promises' :
                   /\ promises'[i].account = response'.body[i]
                   /\ promises'[i].state = "pending"
                      => promises'[i].request.endpoint[2] = response'.body[i].hashValue
        /\ (pc = "joining")
           => /\ \A i \in DOMAIN promises :
                   /\ promises'[i].account = promises[i].account
                   /\ promises'[i].request = promises[i].request
        /\ (pc' = "idle" /\ result'.kind = "value")
           => /\ Len(result'.value) = Len(promises')
              /\ \A i \in DOMAIN promises' :
                   /\ result'.value[i].accountNumber = promises'[i].account.accountNumber
                   /\ EntryItems(call.op, result'.value[i]) = promises'[i].response.body]_vars

\* fetchOrders returned the entries of two accounts whose responses differ,
\* the response for the second account having arrived first
SecondAccountAnsweredFirst ==
  /\ pc = "idle"
  /\ result.op = "fetchOrders"
  /\ result.kind = "value"
  /\ Len(promises) = 2
  /\ promises[2].at < promises[1].at
  /\ promises[1].response.body # promises[2].response.body

(***************************************************************************)
(* C13.  getAvailableExpiries returns the expiration dates of the          *)
(* requested contract type in ascending order: for CALL, one date per key  *)
(* of callExpDateMap; for PUT, one date per key of putExpDateMap.          *)
(***************************************************************************)
KeysOf(map) == {map.keys[k] : k \in DOMAIN map.keys}

ExpiriesOfRequestedType ==
  (pc = "idle" /\ result.op = "getAvailableExpiries" /\ result.kind = "value")
    => LET keys == IF result.arg.contractType = "CALL"
                   THEN KeysOf(response.body.callExpDateMap)
                   ELSE KeysOf(response.body.putExpDateMap)
       IN /\ Len(result.value) = Cardinality(keys)
          /\ {result.value[k] : k \in DOMAIN result.value}
               = {ParseDate(BeforeColon(key)) : key \in keys}
          /\ \A i \in DOMAIN result.value, j \in DOMAIN result.value :
               i < j => ~EarlierDate(result.value[j], result.value[i])

(***************************************************************************)
(* C14.  getRiskFreeRate returns the percent value of the $IRX quote       *)
(* divided by 100, the percent value being the quote's mark when present   *)
(* and its lastPrice otherwise (2 gives 0.02); it fails with an error when *)
(* the response has no quote or the quote has neither value; every rate    *)
(* returned is that of a quote of the response; and the request sent and  *)
(* the result are the same whatever the date argument.                     *)
(***************************************************************************)
PercentOf(quote) == IF quote.mark # <<>> THEN quote.mark ELSE quote.lastPrice

\* value is percent / 100, with value in millionths and percent in thousandths
IsHundredthOf(value, percent) == value * 100 = percent * 1000

RateIsQuotePercentOverHundred ==
  /\ (pc = "awaiting" /\ call.op = "getRiskFreeRate")
       => request.endpoint =
            <<"/marketdata/v1/quotes?symbols=", "%", "2", "4", "I", "R", "X">>
  /\ (pc = "idle" /\ result.op = "getRiskFreeRate" /\ Ok(response))
    => LET quotes == response.body
           irx == {k \in DOMAIN quotes : quotes[k].key = IRX}
       IN /\ \A k \in irx :
               IF PercentOf(quotes[k].quote) = <<>>
               THEN result.kind = "error"
               ELSE /\ result.kind = "value"
                    /\ IsHundredthOf(result.value, PercentOf(quotes[k].quote)[1])
          /\ quotes = <<>> => result.kind = "error"
          /\ result.kind = "value"
             => \E k \in DOMAIN quotes :
                  /\ PercentOf(quotes[k].quote) # <<>>
                  /\ IsHundredthOf(result.value, PercentOf(quotes[k].quote)[1])

\* the rate 0.02 was returned for an $IRX quote whose mark is 2 and whose
\* lastPrice is 5.25
RateFromMarkOverLastPrice ==
  /\ pc = "idle"
  /\ result.op = "getRiskFreeRate"
  /\ result.kind = "value"
  /\ result.value = 20000
  /\ \E k \in DOMAIN response.body :
       /\ response.body[k].key = IRX
       /\ response.body[k].quote = [mark |-> <<2000>>, lastPrice |-> <<5250>>]

(***************************************************************************)
(* C15.  On a success response placeOrder returns as orderId the last path *)
(* segment of the Location header, the text after its last slash, and the  *)
(* literal unknown exactly when the response has no Location header; on a  *)
(* non-success response it returns nothing and fails with an error whose   *)
(* message carries the status code and ends with the response body.        *)
(***************************************************************************)
RECURSIVE AfterLastSlash(_)
AfterLastSlash(s) ==
  IF s = <<>> \/ s[Len(s)] = "/" THEN <<>>
  ELSE AfterLastSlash(SubSeq(s, 1, Len(s) - 1)) \o <<s[Len(s)]>>

EndsWith(message, words) ==
  /\ Len(words) <= Len(message)
  /\ SubSeq(message, Len(message) - Len(words) + 1, Len(message)) = words

OrderIdFromLocation ==
  (pc = "idle" /\ result.op = "placeOrder" /\ response # NoResponse)
    => IF Ok(response)
       THEN /\ result.kind = "value"
            /\ IF response.location = Null
               THEN result.value.orderId = Unknown
               ELSE /\ result.value.orderId = AfterLastSlash(response.location)
                    /\ result.value.orderId # Unknown
       ELSE /\ result.kind = "error"
            /\ Includes(result.message, ToString(response.status))
            /\ EndsWith(result.message, response.body)

\* an order was placed and the Location header of the response is /o/7
OrderPlacedWithLocation ==
  /\ pc = "idle"
  /\ result.op = "placeOrder"
  /\ result.kind = "value"
  /\ result.value.orderId = <<"7">>
  /\ response.location = <<"/", "o", "/", "7">>

(***************************************************************************)
(* C16.  getPositions(symbol) returns, from the positions of all accounts  *)
(* in account order, exactly those whose instrument symbol or underlying   *)
(* symbol is the given symbol, letter case aside, and no position of       *)
(* another ticker; getPositions() returns every position of every account. *)
(***************************************************************************)
SameTicker(a, b) == ToUpperCase(a) = ToUpperCase(b)

IsPositionOf(pos, symbol) ==
  \/ SameTicker(pos.symbol, symbol)
  \/ pos.underlyingSymbol # Undefined /\ SameTicker(pos.underlyingSymbol, symbol)

RECURSIVE PositionsOf(_, _)
PositionsOf(positions, symbol) ==
  IF positions = <<>> THEN <<>>
  ELSE (IF IsPositionOf(positions[1], symbol) THEN <<positions[1]>> ELSE <<>>)
         \o PositionsOf(Tail(positions), symbol)

RECURSIVE InAccountOrder(_)
InAccountOrder(accounts) ==
  IF accounts = <<>> THEN <<>>
  ELSE accounts[1].positions \o InAccountOrder(Tail(accounts))

PositionsOfSymbolOnly ==
  (pc = "idle" /\ result.op = "getPositions" /\ result.kind = "value")
    => IF result.arg = Undefined
       THEN result.value = InAccountOrder(response.body)
       ELSE result.arg # <<>>
              => result.value = PositionsOf(InAccountOrder(response.body), result.arg)

(***************************************************************************)
(* C17.  A put leg with shortQuantity > 0 and longQuantity > 0 is the      *)
(* short leg of a Spread over every lower-strike long put of its account   *)
(* and expiry code and the long leg of a Spread under every higher-strike  *)
(* short put of that account and code, and it is never paired with itself. *)
(***************************************************************************)
IsBothWaysLeg(pos, target) == IsShortPutLeg(pos, target) /\ IsLongPutLeg(pos, target)

BothWaysLegIsShortAndLong ==
  Reconstructed =>
    LET emitted == EmittedPairs(response.body, result.arg) IN
    \A b \in Legs(response.body) :
      IsBothWaysLeg(LegAt(response.body, b), result.arg) =>
        /\ \A l \in Legs(response.body) :
             (/\ l[1] = b[1]
              /\ IsCreditPair(LegAt(response.body, b), LegAt(response.body, l), result.arg))
             => /\ <<b[1], b[2], l[2]>> \in emitted
                /\ \E k \in SpreadIndices :
                     HasEconomicsOf(result.value[k], LegAt(response.body, b),
                                    LegAt(response.body, l))
        /\ \A s \in Legs(response.body) :
             (/\ s[1] = b[1]
              /\ IsCreditPair(LegAt(response.body, s), LegAt(response.body, b), result.arg))
             => /\ <<b[1], s[2], b[2]>> \in emitted
                /\ \E k \in SpreadIndices :
                     HasEconomicsOf(result.value[k], LegAt(response.body, s),
                                    LegAt(response.body, b))
        /\ <<b[1], b[2], b[2]>> \notin emitted

\* three Spreads were returned for a leg held both ways at 5900 between a
\* short put at 5950 and a long put at 5800
BothWaysLegBetweenTwoLegs ==
  /\ Reconstructed
  /\ result.arg = SPX
  /\ response.body = <<Account(<<ShortPut5950, BothPut5900, LongPut5800>>)>>
  /\ Len(result.value) = 3

(***************************************************************************)
(* C18.  Pairing does not consume leg quantity: the quantity of every      *)
(* emitted Spread is the minimum of the whole shortQuantity of its short   *)
(* leg and the whole longQuantity of its long leg, whatever other Spreads  *)
(* those legs are in; short puts of 1 and 2 contracts over one long put of *)
(* 1 contract give quantities 1 and 1, more than the long leg holds.       *)
(***************************************************************************)
\* the pairs <<account, short index, long index>> in the order of the Spreads
EmittedSequence(accounts, target) ==
  Flatten([a \in 1..Len(accounts) |->
             [k \in 1..Len(AccountPairs(accounts[a].positions, target)) |->
                <<a, AccountPairs(accounts[a].positions, target)[k][1],
                  AccountPairs(accounts[a].positions, target)[k][2]>>]])

RECURSIVE SumOfQuantities(_)
SumOfQuantities(spreads) ==
  IF spreads = <<>> THEN 0 ELSE spreads[1].quantity + SumOfQuantities(Tail(spreads))

\* the Spreads whose long leg is the leg l
SpreadsOverLong(l) ==
  LET pairs == EmittedSequence(response.body, result.arg)
  IN SelectSeq([k \in SpreadIndices |-> [quantity |-> result.value[k].quantity, at |-> k]],
               LAMBDA q : pairs[q.at][1] = l[1] /\ pairs[q.at][3] = l[2])

QuantityNotConsumed ==
  Reconstructed =>
    LET pairs == EmittedSequence(response.body, result.arg) IN
    /\ Len(pairs) = Len(result.value)
    /\ \A k \in SpreadIndices :
         LET short == LegAt(response.body, <<pairs[k][1], pairs[k][2]>>)
             long == LegAt(response.body, <<pairs[k][1], pairs[k][3]>>)
         IN /\ result.value[k].shortStrike = DecodedStrike[short.symbol]
            /\ result.value[k].longStrike = DecodedStrike[long.symbol]
            /\ result.value[k].quantity
                 = IF short.shortQuantity < long.longQuantity
                   THEN short.shortQuantity ELSE long.longQuantity
    /\ (/\ result.arg = SPX
        /\ response.body = <<Account(<<ShortPut5900, ShortPut5950, LongPut5800>>)>>)
         => /\ [k \in SpreadIndices |-> result.value[k].quantity] = <<1, 1>>
            /\ SumOfQuantities(SpreadsOverLong(<<1, 3>>)) > LongPut5800.longQuantity

\* the quantities of the Spreads returned over one long leg add up to more
\* than the longQuantity of that leg
SpreadsExceedLongLeg ==
  /\ Reconstructed
  /\ \E l \in Legs(response.body) :
       /\ IsLongPutLeg(LegAt(response.body, l), result.arg)
       /\ SumOfQuantities(SpreadsOverLong(l)) > LegAt(response.body, l).longQuantity

(***************************************************************************)
(* C19, as stated.  The expiry of every emitted Spread is the date with    *)
(* year 2000 + YY, month MM and day DD of the expiry code YYMMDD of its    *)
(* legs, for every six-digit code, and two Spreads have the same expiry    *)
(* exactly when their legs have the same code.                             *)
(***************************************************************************)
\* year, month (1 to 12 for a calendar date) and day, as the code spells them
CodeYear(code) == 2000 + ParseInt(Slice(code, 1, 2))

CodeMonth(code) == ParseInt(Slice(code, 3, 4))

CodeDay(code) == ParseInt(Slice(code, 5, 6))

\* the expiry codes of the legs of the Spreads, Spread by Spread
CodesOfSpreads ==
  LET pairs == EmittedSequence(response.body, result.arg)
  IN [k \in 1..Len(pairs) |->
        ExpiryCode[LegAt(response.body, <<pairs[k][1], pairs[k][2]>>).symbol]]

\* the date is that of the code; Date counts months from 0
IsDateOfCode(date, code) ==
  /\ date.year = CodeYear(code)
  /\ date.month + 1 = CodeMonth(code)
  /\ date.date = CodeDay(code)

ExpiryIsDateOfEveryCode ==
  Reconstructed =>
    LET codes == CodesOfSpreads IN
    /\ Len(codes) = Len(result.value)
    /\ \A k \in SpreadIndices : IsDateOfCode(result.value[k].expiry, codes[k])
    /\ \A j \in SpreadIndices, k \in SpreadIndices :
         (result.value[j].expiry = result.value[k].expiry) <=> (codes[j] = codes[k])

(***************************************************************************)
(* C19, amended.  The expiry of every emitted Spread whose expiry code     *)
(* YYMMDD is a calendar date (MM from 01 to 12, DD a day of that month) is *)
(* the date with year 2000 + YY, month MM and day DD, and two Spreads      *)
(* whose codes are calendar dates have the same expiry exactly when their  *)
(* legs have the same code.  A code that is no calendar date rolls over    *)
(* into the following days (240231 gives 2 March 2024).                    *)
(***************************************************************************)
MonthLength(year, month) ==
  IF month = 2
  THEN (IF (year % 4 = 0 /\ year % 100 # 0) \/ year % 400 = 0 THEN 29 ELSE 28)
  ELSE IF month \in {4, 6, 9, 11} THEN 30 ELSE 31

IsCalendarDate(code) ==
  /\ CodeMonth(code) \in 1..12
  /\ CodeDay(code) \in 1..MonthLength(CodeYear(code), CodeMonth(code))

ExpiryIsDateOfCalendarCode ==
  Reconstructed =>
    LET codes == CodesOfSpreads IN
    /\ Len(codes) = Len(result.value)
    /\ \A k \in SpreadIndices :
         IsCalendarDate(codes[k]) => IsDateOfCode(result.value[k].expiry, codes[k])
    /\ \A j \in SpreadIndices, k \in SpreadIndices :
         (IsCalendarDate(codes[j]) /\ IsCalendarDate(codes[k]))
           => ((result.value[j].expiry = result.value[k].expiry) <=> (codes[j] = codes[k]))

\* Spreads of the expiry codes 241220 and 240302 were returned together
SpreadsOfTwoCalendarCodes ==
  /\ Reconstructed
  /\ \E j \in SpreadIndices, k \in SpreadIndices :
       /\ CodesOfSpreads[j] = Dec20
       /\ CodesOfSpreads[k] = Mar02
       /\ result.value[j].expiry = [year |-> 2024, month |-> 11, date |-> 20]
       /\ result.value[k].expiry = [year |-> 2024, month |-> 2, date |-> 2]

(***************************************************************************)
(* C20.  getPriceHistory requests the window of effectiveDays, which is    *)
(* days when given, else the whole days from startDate to endDate when a   *)
(* startDate is given, else 30: periodType month with period 1, 2, 3 or 6  *)
(* for effectiveDays up to 22, 44, 66 and 132, and periodType year with    *)
(* period 1 above 132.  For effectiveDays from 0 to 132 the period at 22   *)
(* trading days a month is at least effectiveDays, and no smaller          *)
(* effectiveDays requests a longer window.                                 *)
(***************************************************************************)
\* the value of a parameter of the request in flight
ParamOf(key) ==
  LET params == request.endpoint[2]
  IN params[CHOOSE k \in DOMAIN params : params[k][1] = key][2]

\* n is the number of whole days in hours, counted towards zero
IsWholeDaysOf(n, hours) ==
  IF hours >= 0
  THEN n >= 0 /\ n * 24 <= hours /\ hours < (n + 1) * 24
  ELSE n <= 0 /\ n * 24 >= hours /\ hours > (n - 1) * 24

\* the days the call in flight asks for
IsRequestedDays(n) ==
  IF call.arg.days # <<>> THEN n = call.arg.days[1]
  ELSE IF call.arg.startDate # <<>>
  THEN IsWholeDaysOf(n, (IF call.arg.endDate = <<>> THEN Now ELSE call.arg.endDate[1])
                          - call.arg.startDate[1])
  ELSE n = 30

\* the length of a window in months
WindowMonths(periodType, period) ==
  IF periodType = "year" THEN 12 * period ELSE period

TimesIn(c, seq) == Cardinality({k \in 1..Len(seq) : seq[k] = c})

\* the two sequences hold the same candles, each as many times
SameCandles(returned, received) ==
  /\ Len(returned) = Len(received)
  /\ \A k \in 1..Len(received) :
       TimesIn(received[k], returned) = TimesIn(received[k], received)

NonDecreasingDatetime(candles) ==
  \A j, k \in 1..Len(candles) : j < k => candles[j].datetime <= candles[k].datetime

PriceHistoryReturned ==
  /\ pc = "idle"
  /\ result.op = "getPriceHistory"
  /\ result.kind = "value"

CandlesSortedAndComplete ==
  PriceHistoryReturned =>
    IF response.body.empty
    THEN result.value = <<>>
    ELSE /\ NonDecreasingDatetime(result.value)
         /\ SameCandles(result.value, response.body.candles)

\* a later candle sent before an earlier one
LaterCandleSentFirst ==
  /\ PriceHistoryReturned
  /\ ~response.body.empty
  /\ response.body.candles = <<Candle(20, 2), Candle(10, 3)>>
  /\ result.value = <<Candle(10, 3), Candle(20, 2)>>


(***************************************************************************)
(* C22.  A SchwabClient cannot be constructed with an empty access token,  *)
(* and every HTTP request of a constructed client carries the header       *)
(* Authorization: Bearer <token> with the token given at construction,     *)
(* which never changes and which headers supplied in the request options   *)
(* cannot replace.                                                         *)
(***************************************************************************)
Constructed == pc # "new"

\* the requests sent and not yet answered
RequestsInFlight ==
  (IF request.method # "none" THEN {request} ELSE {})
  \cup {promises[i].request : i \in {j \in DOMAIN promises : promises[j].state = "pending"}}

CarriesTheToken(req) == HeaderValues(req, AuthorizationName) = <<Bearer(accessToken)>>

\* no client holds an empty token
NoClientOfEmptyToken == Constructed => accessToken # ""

\* the token of a client is the one it was constructed with, for good
TokenIsTheOneGiven ==
  /\ (~Constructed /\ Constructed') => (accessToken' = result'.arg /\ accessToken' # "")
  /\ Constructed => accessToken' = accessToken

\* a request of an operation, which passes no options
OperationsCarryTheToken ==
  \A req \in RequestsInFlight :
    (call.op # "makeApiRequest") => CarriesTheToken(req)

TokenNeverChanges == [][TokenIsTheOneGiven]_vars

\* a request whose options held an Authorization as the client spells it
AuthorizationOfOptionsOverwritten ==
  /\ pc = "awaiting"
  /\ call.op = "makeApiRequest"
  /\ call.arg = [headers |-> HeaderObject(<<<<AuthorizationName, Foreign>>>>)]
  /\ request.headers = <<<<AuthorizationName, Bearer(accessToken)>>>>

\* a request whose options were a Headers instance holding an Authorization
AuthorizationOfHeadersInstanceKept ==
  /\ pc = "awaiting"
  /\ call.op = "makeApiRequest"
  /\ call.arg.headers.form = "Headers"
  /\ HeaderValues(request, AuthorizationName) = <<Foreign, Bearer(accessToken)>>

====
